---------------------------- MODULE Spec2Model ----------------------------
(***************************************************************************)
(* Passive-Log-Receiver: the chunked RSA-OAEP cipher (encrypt.js,          *)
(* decrypt.js) and the ingestion endpoint of server.js.                    *)
(*                                                                         *)
(* JavaScript strings are sequences of UTF-16 code units and Buffers are   *)
(* sequences of octets; both are modelled as sequences of naturals.        *)
(* RSA-OAEP (node's crypto.publicEncrypt / crypto.privateDecrypt) is       *)
(* modelled as an ideal randomized cipher: every publicEncrypt call issues *)
(* a fresh ciphertext of the key's modulus length, and privateDecrypt      *)
(* returns the chunk of an issued ciphertext under the matching key and    *)
(* throws on every other octet string.                                     *)
(***************************************************************************)
EXTENDS Integers, Sequences, FiniteSets, TLC

(***************************************************************************)
(* Bounds of the model.                                                    *)
(***************************************************************************)
\* the ASCII plaintexts encrypted are up to MaxChunks chunks long
MaxChunks == 3
\* the server serves at most MaxRequests requests in one behaviour
MaxRequests == 2
\* a chunk field is tampered with in its first and last TamperEdge
\* characters and wherever it holds '+' or '/'
TamperEdge == 4

(***************************************************************************)
(* Program constants.                                                      *)
(***************************************************************************)
MAX_CHUNK_SIZE == 190

(***************************************************************************)
(* Generic helpers on sequences.                                           *)
(***************************************************************************)
Min(a, b) == IF a < b THEN a ELSE b

\* Buffer.slice(from, to) / String.slice with 0-based half-open bounds
Slice(s, from, to) == SubSeq(s, from + 1, Min(to, Len(s)))

\* concatenation of the sequences ss[lo..hi], by halving
RECURSIVE ConcatRange(_, _, _)
ConcatRange(ss, lo, hi) ==
    IF lo > hi THEN << >>
    ELSE IF lo = hi THEN ss[lo]
    ELSE LET mid == (lo + hi) \div 2
         IN  ConcatRange(ss, lo, mid) \o ConcatRange(ss, mid + 1, hi)

\* Buffer.concat(list) and Array.join('') of per-position pieces
Concat(ss) == ConcatRange(ss, 1, Len(ss))

(***************************************************************************)
(* Buffer.from(text, 'utf8'): UTF-16 code units to UTF-8 octets.  An       *)
(* unpaired surrogate is encoded as U+FFFD (EF BF BD).                     *)
(***************************************************************************)
IsHighSurrogate(u) == u >= 55296 /\ u <= 56319
IsLowSurrogate(u) == u >= 56320 /\ u <= 57343

Utf8OfCodePoint(cp) ==
    IF cp < 128 THEN << cp >>
    ELSE IF cp < 2048 THEN << 192 + cp \div 64, 128 + (cp % 64) >>
    ELSE IF cp < 65536
         THEN << 224 + cp \div 4096, 128 + ((cp \div 64) % 64), 128 + (cp % 64) >>
    ELSE << 240 + cp \div 262144, 128 + ((cp \div 4096) % 64),
            128 + ((cp \div 64) % 64), 128 + (cp % 64) >>

Utf8EncodeAt(s, i) ==
    LET u == s[i]
    IN  IF IsHighSurrogate(u)
        THEN IF i < Len(s) /\ IsLowSurrogate(s[i + 1])
             THEN Utf8OfCodePoint(65536 + (u - 55296) * 1024 + (s[i + 1] - 56320))
             ELSE << 239, 191, 189 >>
        ELSE IF IsLowSurrogate(u)
        THEN IF i > 1 /\ IsHighSurrogate(s[i - 1])
             THEN << >>
             ELSE << 239, 191, 189 >>
        ELSE Utf8OfCodePoint(u)

Utf8Encode(s) ==
    IF \A i \in 1..Len(s) : s[i] < 128 THEN s
    ELSE Concat([i \in 1..Len(s) |-> Utf8EncodeAt(s, i)])

(***************************************************************************)
(* Buffer.toString('utf8'): UTF-8 octets to UTF-16 code units.  Every      *)
(* maximal ill-formed subsequence decodes to one U+FFFD.                   *)
(***************************************************************************)
IsContinuation(b) == b >= 128 /\ b <= 191

\* number of continuation octets a lead octet asks for; 0 for ASCII and for
\* an octet that cannot start a sequence
Utf8Need(b) ==
    IF b >= 194 /\ b <= 223 THEN 1
    ELSE IF b >= 224 /\ b <= 239 THEN 2
    ELSE IF b >= 240 /\ b <= 244 THEN 3
    ELSE 0

\* the second octet of a sequence is restricted after E0, ED, F0 and F4
Utf8SecondOk(lead, b) ==
    /\ b >= (IF lead = 224 THEN 160 ELSE IF lead = 240 THEN 144 ELSE 128)
    /\ b <= (IF lead = 237 THEN 159 ELSE IF lead = 244 THEN 143 ELSE 191)

\* how many of the octets after the lead at i continue its sequence
Utf8Avail(B, i) ==
    LET need == Utf8Need(B[i])
        n == Len(B)
        ok1 == need >= 1 /\ i + 1 <= n /\ Utf8SecondOk(B[i], B[i + 1])
        ok2 == ok1 /\ need >= 2 /\ i + 2 <= n /\ IsContinuation(B[i + 2])
        ok3 == ok2 /\ need >= 3 /\ i + 3 <= n /\ IsContinuation(B[i + 3])
    IN  IF ok3 THEN 3 ELSE IF ok2 THEN 2 ELSE IF ok1 THEN 1 ELSE 0

\* the continuation octet at i belongs to the sequence of a lead before it
Utf8Covered(B, i) ==
    /\ IsContinuation(B[i])
    /\ \E d \in 1..3 :
          /\ i - d >= 1
          /\ ~IsContinuation(B[i - d])
          /\ \A e \in 1..(d - 1) : IsContinuation(B[i - e])
          /\ d <= Utf8Avail(B, i - d)

Utf16OfCodePoint(cp) ==
    IF cp < 65536 THEN << cp >>
    ELSE << 55296 + (cp - 65536) \div 1024, 56320 + ((cp - 65536) % 1024) >>

Utf8DecodeAt(B, i) ==
    LET b == B[i]
        need == Utf8Need(b)
    IN  IF Utf8Covered(B, i) THEN << >>
        ELSE IF b < 128 THEN << b >>
        ELSE IF need >= 1 /\ Utf8Avail(B, i) = need
        THEN Utf16OfCodePoint(
               IF need = 1 THEN (b - 192) * 64 + (B[i + 1] - 128)
               ELSE IF need = 2
               THEN (b - 224) * 4096 + (B[i + 1] - 128) * 64 + (B[i + 2] - 128)
               ELSE (b - 240) * 262144 + (B[i + 1] - 128) * 4096
                    + (B[i + 2] - 128) * 64 + (B[i + 3] - 128))
        ELSE << 65533 >>

Utf8Decode(B) ==
    IF \A i \in 1..Len(B) : B[i] < 128 THEN B
    ELSE Concat([i \in 1..Len(B) |-> Utf8DecodeAt(B, i)])

(***************************************************************************)
(* Base64.  Buffer.toString('base64') writes the standard alphabet with    *)
(* '=' padding.  Buffer.from(s, 'base64') is forgiving: it also reads the  *)
(* URL-safe '-' and '_', skips every other character, stops at the first   *)
(* '=' and drops the bits left over after the last whole octet.            *)
(***************************************************************************)
Base64Char(v) ==
    IF v < 26 THEN 65 + v
    ELSE IF v < 52 THEN 97 + (v - 26)
    ELSE IF v < 62 THEN 48 + (v - 52)
    ELSE IF v = 62 THEN 43
    ELSE 47

\* the 6-bit value of a character, -1 for a character outside both alphabets
Base64Value(c) ==
    IF c >= 65 /\ c <= 90 THEN c - 65
    ELSE IF c >= 97 /\ c <= 122 THEN c - 97 + 26
    ELSE IF c >= 48 /\ c <= 57 THEN c - 48 + 52
    ELSE IF c = 43 \/ c = 45 THEN 62
    ELSE IF c = 47 \/ c = 95 THEN 63
    ELSE -1

Base64EncodeAt(B, j) ==
    LET g == (j - 1) \div 4
        k == (j - 1) % 4
        n == Len(B)
        b0 == B[3 * g + 1]
        b1 == IF 3 * g + 2 <= n THEN B[3 * g + 2] ELSE 0
        b2 == IF 3 * g + 3 <= n THEN B[3 * g + 3] ELSE 0
    IN  IF k = 0 THEN Base64Char(b0 \div 4)
        ELSE IF k = 1 THEN Base64Char((b0 % 4) * 16 + b1 \div 16)
        ELSE IF k = 2
        THEN IF 3 * g + 2 > n THEN 61 ELSE Base64Char((b1 % 16) * 4 + b2 \div 64)
        ELSE IF 3 * g + 3 > n THEN 61 ELSE Base64Char(b2 % 64)

Base64Encode(B) ==
    [j \in 1..(4 * ((Len(B) + 2) \div 3)) |-> Base64EncodeAt(B, j)]

Base64Decode(s) ==
    LET pads == {i \in 1..Len(s) : s[i] = 61}
        stop == IF pads = {} THEN Len(s) + 1
                ELSE CHOOSE i \in pads : \A j \in pads : i <= j
        v == SelectSeq([i \in 1..(stop - 1) |-> Base64Value(s[i])],
                       LAMBDA x : x >= 0)
    IN  [i \in 1..((Len(v) * 3) \div 4) |->
            LET q == (8 * (i - 1)) \div 6 + 1
                r == (8 * (i - 1)) % 6
            IN  IF r = 0 THEN v[q] * 4 + v[q + 1] \div 16
                ELSE IF r = 2 THEN (v[q] % 16) * 16 + v[q + 1] \div 4
                ELSE (v[q] % 4) * 64 + v[q + 1]]

(***************************************************************************)
(* Keys.  A key is its PEM text; the model keeps what the cipher reads of  *)
(* it: whether it is empty, whether it parses, the key pair it belongs to  *)
(* and the modulus size.                                                   *)
(***************************************************************************)
Key(form, pair, bits) == [form |-> form, pair |-> pair, bits |-> bits]

KeyA == Key("pem", 1, 2048)
KeyB == Key("pem", 2, 2048)
KeySmall == Key("pem", 3, 1024)
KeyMalformed == Key("malformed", 0, 0)
KeyEmpty == Key("empty", 0, 0)

Keys == {KeyA, KeyB, KeySmall, KeyMalformed, KeyEmpty}

ModulusLen(key) == key.bits \div 8

(***************************************************************************)
(* The ideal cipher.  issued is the sequence of ciphertexts handed out so  *)
(* far: issued[n] is the key pair, the octets and the chunk of the n-th.   *)
(***************************************************************************)
CipherOctets(n, len) == [i \in 1..len |-> (n * 97 + i * i + 5 * i) % 256]

\* crypto.publicEncrypt({key, RSA_PKCS1_OAEP_PADDING, sha256}, chunk) throws
\* on a key that does not parse and on a chunk longer than the OAEP limit
PublicEncryptThrows(key, chunk) ==
    \/ key.form # "pem"
    \/ Len(chunk) > ModulusLen(key) - 2 * 32 - 2

\* the octets of the ciphertext publicEncrypt returns as the n-th issued one
PublicEncrypt(key, n) == CipherOctets(n, ModulusLen(key))

\* the issued ciphertexts that privateDecrypt accepts under key
PrivateDecryptMatches(key, octets, table) ==
    {n \in 1..Len(table) :
        /\ key.form = "pem"
        /\ table[n].pair = key.pair
        /\ octets = table[n].ct}

\* a decryption without the OAEP check: every octet string of the modulus
\* length decrypts to something
PrivateDecryptNoPadding(key, octets, table) ==
    LET m == PrivateDecryptMatches(key, octets, table)
    IN  IF key.form # "pem" \/ Len(octets) # ModulusLen(key)
        THEN [ok |-> FALSE, data |-> << >>]
        ELSE IF m = {} THEN [ok |-> TRUE, data |-> << octets[1] % 128 >>]
        ELSE [ok |-> TRUE, data |-> table[CHOOSE n \in m : TRUE].pt]

\* crypto.privateDecrypt: the chunk, or a throw
PrivateDecrypt(key, octets, table) ==
    LET m == PrivateDecryptMatches(key, octets, table)
    IN  IF m = {} THEN [ok |-> FALSE, data |-> << >>]
        ELSE [ok |-> TRUE, data |-> table[CHOOSE n \in m : TRUE].pt]

(***************************************************************************)
(* JavaScript values and string helpers.                                   *)
(***************************************************************************)
JsString(s) == [t |-> "string", s |-> s]
JsUndefined == [t |-> "undefined", s |-> << >>]

\* String(n) of a non-negative integer
RECURSIVE ToDecimal(_)
ToDecimal(n) ==
    IF n < 10 THEN << 48 + n >>
    ELSE Append(ToDecimal(n \div 10), 48 + (n % 10))

\* Array.prototype.join(sep) on an array of strings
JoinWith(parts, sep) ==
    Concat([k \in 1..(2 * Len(parts) - 1) |->
               IF k % 2 = 1 THEN parts[(k + 1) \div 2] ELSE << sep >>])

\* the pieces of s from position from on, cut at the positions in seps
RECURSIVE SplitFrom(_, _, _)
SplitFrom(s, seps, from) ==
    IF seps = {} THEN << SubSeq(s, from, Len(s)) >>
    ELSE LET nxt == CHOOSE i \in seps : \A j \in seps : i <= j
         IN  << SubSeq(s, from, nxt - 1) >> \o SplitFrom(s, seps \ {nxt}, nxt + 1)

\* String.prototype.split(sep) for a one-character separator
Split(s, sep) == SplitFrom(s, {i \in 1..Len(s) : s[i] = sep}, 1)

IsDigit(c) == c >= 48 /\ c <= 57
IsWhiteSpace(c) == c \in {9, 10, 11, 12, 13, 32, 160, 65279}

RECURSIVE DigitsValue(_, _, _)
DigitsValue(s, first, last) ==
    IF last < first THEN 0
    ELSE DigitsValue(s, first, last - 1) * 10 + (s[last] - 48)

\* parseInt(s, 10): leading white space is skipped, a sign is read, and the
\* longest run of digits that follows is the value; anything after it is
\* ignored.  NaN when no digit is found.
ParseInt(s) ==
    LET solid == {i \in 1..Len(s) : ~IsWhiteSpace(s[i])}
        start == IF solid = {} THEN Len(s) + 1
                 ELSE CHOOSE i \in solid : \A j \in solid : i <= j
        signed == start <= Len(s) /\ s[start] \in {43, 45}
        first == IF signed THEN start + 1 ELSE start
        others == {i \in first..Len(s) : ~IsDigit(s[i])}
        last == IF others = {} THEN Len(s)
                ELSE (CHOOSE i \in others : \A j \in others : i <= j) - 1
        magnitude == DigitsValue(s, first, last)
    IN  IF last < first THEN [nan |-> TRUE, value |-> 0]
        ELSE [nan |-> FALSE,
              value |-> IF signed /\ s[start] = 45 THEN 0 - magnitude ELSE magnitude]

(***************************************************************************)
(* encrypt(text, publicKey)                                                *)
(***************************************************************************)
\* the loop with the bound i <= textBuffer.length
RECURSIVE SplitChunksInclusive(_, _)
SplitChunksInclusive(textBuffer, i) ==
    IF i <= Len(textBuffer)
    THEN << Slice(textBuffer, i, i + MAX_CHUNK_SIZE) >>
         \o SplitChunksInclusive(textBuffer, i + MAX_CHUNK_SIZE)
    ELSE << >>

\* mutation of SplitChunks: the slices overlap by one octet
RECURSIVE SplitChunksOverlapping(_, _)
SplitChunksOverlapping(textBuffer, i) ==
    IF i < Len(textBuffer)
    THEN << Slice(textBuffer, i, i + MAX_CHUNK_SIZE) >>
         \o SplitChunksOverlapping(textBuffer, i + MAX_CHUNK_SIZE - 1)
    ELSE << >>

\* the loop that slices textBuffer into chunks of MAX_CHUNK_SIZE octets
RECURSIVE SplitChunks(_, _)
SplitChunks(textBuffer, i) ==
    IF i < Len(textBuffer)
    THEN << Slice(textBuffer, i, i + MAX_CHUNK_SIZE) >>
         \o SplitChunks(textBuffer, i + MAX_CHUNK_SIZE)
    ELSE << >>

EncryptThrow(message, table) ==
    [ok |-> FALSE, error |-> message, token |-> << >>, table |-> table]

\* the result of encrypt, and the issued-ciphertext table after the call
encrypt(text, publicKey, table) ==
    IF text.t # "string" \/ text.s = << >>
    THEN EncryptThrow("Text must be a non-empty string", table)
    ELSE IF publicKey.form = "empty"
    THEN EncryptThrow("Public key must be a non-empty string", table)
    ELSE
    LET textBuffer == Utf8Encode(text.s)
        chunks == SplitChunks(textBuffer, 0)
        count == Len(chunks)
        base == Len(table)
    IN  IF \E j \in 1..count : PublicEncryptThrows(publicKey, chunks[j])
        THEN EncryptThrow("publicEncrypt failed", table)
        ELSE
        LET encrypted == [j \in 1..count |-> PublicEncrypt(publicKey, base + j)]
            encryptedChunks == [j \in 1..count |-> Base64Encode(encrypted[j])]
        IN  [ok |-> TRUE, error |-> "",
             token |-> ToDecimal(count) \o << 58 >> \o JoinWith(encryptedChunks, 58),
             table |-> table \o
                 [j \in 1..count |->
                     [pair |-> publicKey.pair, ct |-> encrypted[j],
                      pt |-> chunks[j]]]]

(***************************************************************************)
(* decrypt(encryptedData, privateKey)                                      *)
(***************************************************************************)
\* privOps counts the crypto.privateDecrypt calls made before the return or
\* the throw; index is the chunk the chunk error names (0 otherwise)
DecryptThrow(message, index, privOps) ==
    [ok |-> FALSE, error |-> message, index |-> index, text |-> << >>,
     privOps |-> privOps]

\* a map that turns every decrypted chunk into text on its own
RECURSIVE DecryptChunksPerChunk(_, _, _, _, _)
DecryptChunksPerChunk(encryptedChunks, index, privateKey, table, decryptedChunks) ==
    IF index >= Len(encryptedChunks)
    THEN [ok |-> TRUE, error |-> "", index |-> 0,
          text |-> Concat(decryptedChunks),
          privOps |-> Len(encryptedChunks)]
    ELSE LET encryptedBuffer == Base64Decode(encryptedChunks[index + 1])
             decrypted == PrivateDecrypt(privateKey, encryptedBuffer, table)
         IN  IF ~decrypted.ok
             THEN DecryptThrow("Decryption failed for chunk", index + 1, index + 1)
             ELSE DecryptChunksPerChunk(encryptedChunks, index + 1, privateKey, table,
                                        Append(decryptedChunks,
                                               Utf8Decode(decrypted.data)))

\* a map whose catch drops the chunk and goes on
RECURSIVE DecryptChunksSkipFailed(_, _, _, _, _)
DecryptChunksSkipFailed(encryptedChunks, index, privateKey, table, decryptedChunks) ==
    IF index >= Len(encryptedChunks)
    THEN [ok |-> TRUE, error |-> "", index |-> 0,
          text |-> Utf8Decode(Concat(decryptedChunks)),
          privOps |-> Len(encryptedChunks)]
    ELSE LET encryptedBuffer == Base64Decode(encryptedChunks[index + 1])
             decrypted == PrivateDecrypt(privateKey, encryptedBuffer, table)
         IN  DecryptChunksSkipFailed(encryptedChunks, index + 1, privateKey, table,
                                     IF decrypted.ok
                                     THEN Append(decryptedChunks, decrypted.data)
                                     ELSE decryptedChunks)

\* a map whose error names the chunk by its 0-based index
RECURSIVE DecryptChunksZeroBased(_, _, _, _, _)
DecryptChunksZeroBased(encryptedChunks, index, privateKey, table, decryptedChunks) ==
    IF index >= Len(encryptedChunks)
    THEN [ok |-> TRUE, error |-> "", index |-> 0,
          text |-> Utf8Decode(Concat(decryptedChunks)),
          privOps |-> Len(encryptedChunks)]
    ELSE LET encryptedBuffer == Base64Decode(encryptedChunks[index + 1])
             decrypted == PrivateDecrypt(privateKey, encryptedBuffer, table)
         IN  IF ~decrypted.ok
             THEN DecryptThrow("Decryption failed for chunk", index, index + 1)
             ELSE DecryptChunksZeroBased(encryptedChunks, index + 1, privateKey, table,
                                         Append(decryptedChunks, decrypted.data))

\* encryptedChunks.map(...): chunks are decrypted in order, and the first
\* one crypto.privateDecrypt throws on ends the call
RECURSIVE DecryptChunks(_, _, _, _, _)
DecryptChunks(encryptedChunks, index, privateKey, table, decryptedChunks) ==
    IF index >= Len(encryptedChunks)
    THEN [ok |-> TRUE, error |-> "", index |-> 0,
          text |-> Utf8Decode(Concat(decryptedChunks)),
          privOps |-> Len(encryptedChunks)]
    ELSE LET encryptedBuffer == Base64Decode(encryptedChunks[index + 1])
             decrypted == PrivateDecrypt(privateKey, encryptedBuffer, table)
         IN  IF ~decrypted.ok
             THEN DecryptThrow("Decryption failed for chunk", index + 1, index + 1)
             ELSE DecryptChunks(encryptedChunks, index + 1, privateKey, table,
                                Append(decryptedChunks, decrypted.data))

decrypt(encryptedData, privateKey, table) ==
    IF encryptedData = << >>
    THEN DecryptThrow("Encrypted data must be a non-empty string", 0, 0)
    ELSE IF privateKey.form = "empty"
    THEN DecryptThrow("Private key must be a non-empty string", 0, 0)
    ELSE
    LET parts == Split(encryptedData, 58)
    IN  IF Len(parts) < 2
        THEN DecryptThrow("Invalid encrypted data format", 0, 0)
        ELSE
        LET chunkCount == ParseInt(parts[1])
        IN  IF chunkCount.nan \/ chunkCount.value < 1
               \/ chunkCount.value # Len(parts) - 1
            THEN DecryptThrow("Invalid chunk count in encrypted data", 0, 0)
            ELSE DecryptChunks(Tail(parts), 0, privateKey, table, << >>)

(***************************************************************************)
(* State.                                                                  *)
(*   issued  the ideal cipher's table of issued ciphertexts                *)
(*   enc     the encrypt call of the cipher run: its arguments and result  *)
(*   dec     the decrypt call of the cipher run: its arguments and result  *)
(*   proc    the server process: "loading", "listening" or "exited"        *)
(*   config  API_KEY, ACCESS_KEY and PUBLIC_KEY of the server process      *)
(*   dirs    the directories on disk, as paths below __dirname             *)
(*   files   the files on disk: path |-> content                           *)
(*   last    the last request served and the response sent to it           *)
(*   served  the number of requests served                                 *)
(*   res     the response object of the last request: its timeout timer    *)
(*           and the responses sent through it                             *)
(***************************************************************************)
VARIABLES issued, enc, dec, proc, config, dirs, files, last, served, res

vars == << issued, enc, dec, proc, config, dirs, files, last, served, res >>

cipherVars == << issued, enc, dec >>
serverVars == << proc, config, dirs, files, last, served, res >>

\* the server process before server.js has run: no key is loaded, nothing
\* is on disk below __dirname, no request was served
NoConfig == [API_KEY |-> [t |-> "null", s |-> << >>],
             ACCESS_KEY |-> [t |-> "null", s |-> << >>],
             PUBLIC_KEY |-> [t |-> "null", s |-> << >>]]

NoRequest == [kind |-> "none"]

\* a response object nothing was sent through and no timer watches: timer
\* is "none", "armed" or "fired"; sent holds the status of every response
\* sent; sendFile is "none", "pending", "sent", "failed" or "refused"
NoResponse ==
    [timer |-> "none", headersSent |-> FALSE, sent |-> << >>,
     sendFile |-> "none"]

ServerIdle ==
    /\ proc = "loading"
    /\ config = NoConfig
    /\ dirs = {}
    /\ files = << >>
    /\ last = NoRequest
    /\ served = 0
    /\ res = NoResponse

(***************************************************************************)
(* Inputs of the cipher run.                                               *)
(***************************************************************************)
Repeat(pat, n) == [i \in 1..n |-> pat[((i - 1) % Len(pat)) + 1]]

\* "hello world"
HelloWorld == << 104, 101, 108, 108, 111, 32, 119, 111, 114, 108, 100 >>

\* lengths around every chunk boundary up to MaxChunks chunks
BoundaryLengths ==
    {1} \cup {MaxChunks * MAX_CHUNK_SIZE}
        \cup {k * MAX_CHUNK_SIZE + d : k \in 1..(MaxChunks - 1), d \in {-1, 0, 1}}

\* "aaa...", and texts of 3- and 4-octet characters that straddle the chunk
\* boundaries: "€😀..." and "😀€..."
WellFormedTexts ==
    {HelloWorld}
        \cup {Repeat(<< 97 >>, n) : n \in BoundaryLengths}
        \cup {Repeat(<< 8364, 55357, 56832 >>, n) : n \in {3, 84, 165}}
        \cup {Repeat(<< 55357, 56832, 8364 >>, n) : n \in {84}}

\* strings with an unpaired surrogate: "a\uD83D", "\uDE00", "\uD83Da"
LoneSurrogateTexts ==
    {<< 97, 55357 >>, << 56832 >>, << 55357, 97 >>}

Texts ==
    {JsString(t) : t \in WellFormedTexts \cup LoneSurrogateTexts}
        \cup {JsString(<< >>), JsUndefined}

\* String.prototype.split(':') of a token, then the chunk fields alone
TokenParts(token) == Split(token, 58)
ChunkFields(token) == Tail(TokenParts(token))

\* 1-based position in the token of the first character of chunk field j
FieldStart(parts, j) ==
    Len(parts[1]) + 2 + Len(Concat([k \in 1..(j - 1) |-> parts[k + 1] \o << 58 >>]))

\* the characters one character of a chunk field is replaced by: one that
\* differs in the lowest bit, one that differs in the highest bit, the
\* URL-safe '-' and '_', the delimiter ':', the padding '=', and '!'
Replacements(c) ==
    LET v == Base64Value(c)
    IN  ((IF v >= 0
          THEN {Base64Char(IF v % 2 = 0 THEN v + 1 ELSE v - 1),
                Base64Char((v + 32) % 64)}
          ELSE {65})
         \cup {45, 95, 58, 61, 33}) \ {c}

\* the offsets (1-based) of a chunk field that are tampered with
TamperOffsets(field) ==
    {o \in 1..Len(field) :
        \/ o <= TamperEdge
        \/ o > Len(field) - TamperEdge
        \/ field[o] \in {43, 47}}

\* the token with the character at position pos replaced by c
ReplaceAt(token, pos, c) == [token EXCEPT ![pos] = c]

(***************************************************************************)
(* Structurally damaged tokens, made from a token encrypt returned.        *)
(***************************************************************************)
MalformedVariants ==
    {"count+1", "count-1", "zero", "negative", "word", "no-count", "suffix",
     "fraction", "space", "plus", "drop-chunk", "extra-chunk", "no-delimiter",
     "count-only", "empty"}

WithCount(token, field) ==
    JoinWith(<< field >> \o ChunkFields(token), 58)

Mangle(token, variant) ==
    LET parts == TokenParts(token)
        n == Len(parts) - 1
    IN  CASE variant = "count+1" -> WithCount(token, ToDecimal(n + 1))
          [] variant = "count-1" -> WithCount(token, ToDecimal(n - 1))
          [] variant = "zero" -> WithCount(token, << 48 >>)
          [] variant = "negative" -> WithCount(token, << 45 >> \o parts[1])
          [] variant = "word" -> WithCount(token, << 97, 98, 99 >>)
          [] variant = "no-count" -> WithCount(token, << >>)
          [] variant = "suffix" -> WithCount(token, parts[1] \o << 120 >>)
          [] variant = "fraction" -> WithCount(token, parts[1] \o << 46, 53 >>)
          [] variant = "space" -> WithCount(token, << 32 >> \o parts[1])
          [] variant = "plus" -> WithCount(token, << 43 >> \o parts[1])
          [] variant = "drop-chunk" -> JoinWith(SubSeq(parts, 1, n), 58)
          [] variant = "extra-chunk" -> token \o << 58 >> \o parts[n + 1]
          [] variant = "no-delimiter" -> parts[2]
          [] variant = "count-only" -> parts[1]
          [] OTHER -> << >>

(***************************************************************************)
(* The cipher run: encrypt is applied to an input drawn in CipherInit, and *)
(* decrypt is applied once to the token, to the token with one character   *)
(* replaced, or to a structurally damaged token.                           *)
(***************************************************************************)
NoDecrypt ==
    [kind |-> "none", input |-> << >>, key |-> KeyEmpty, variant |-> "",
     pos |-> 0, field |-> 0, res |-> DecryptThrow("", 0, 0)]

\* the inputs encrypt is applied to: every text under a 2048-bit key, and
\* a short and a long text under the other keys
CipherInputs ==
    (Texts \X {KeyA})
        \cup ({JsString(HelloWorld), JsString(Repeat(<< 97 >>, MAX_CHUNK_SIZE + 1))}
                 \X (Keys \ {KeyA}))

CipherInit ==
    /\ issued = << >>
    /\ \E input \in CipherInputs :
          enc = [phase |-> "input", text |-> input[1], key |-> input[2],
                 ok |-> FALSE, error |-> "", token |-> << >>]
    /\ dec = NoDecrypt
    /\ ServerIdle

Encrypt ==
    /\ enc.phase = "input"
    /\ \E r \in {encrypt(enc.text, enc.key, issued)} :
          /\ enc' = [enc EXCEPT !.phase = "encrypted", !.ok = r.ok,
                                !.error = r.error, !.token = r.token]
          /\ issued' = r.table
    /\ UNCHANGED << dec, serverVars >>

\* decrypt may be applied once, to what encrypt returned
CanDecrypt == enc.phase = "encrypted" /\ enc.ok /\ dec.kind = "none"

DecryptToken(privateKey) ==
    /\ CanDecrypt
    /\ dec' = [NoDecrypt EXCEPT !.kind = "token", !.input = enc.token,
                                !.key = privateKey,
                                !.res = decrypt(enc.token, privateKey, issued)]
    /\ UNCHANGED << issued, enc, serverVars >>

\* decrypt, with the private key of the pair, of the token with one
\* character of one chunk field replaced
DecryptTampered ==
    /\ CanDecrypt
    /\ LET parts == TokenParts(enc.token)
       IN  \E j \in 1..(Len(parts) - 1) :
              \E o \in TamperOffsets(parts[j + 1]) :
                 \E c \in Replacements(parts[j + 1][o]) :
                    LET pos == FieldStart(parts, j) + o - 1
                        input == ReplaceAt(enc.token, pos, c)
                    IN  dec' = [NoDecrypt EXCEPT
                                   !.kind = "tampered", !.input = input,
                                   !.key = enc.key, !.pos = pos, !.field = j,
                                   !.res = decrypt(input, enc.key, issued)]
    /\ UNCHANGED << issued, enc, serverVars >>

DecryptMalformed(variant, privateKey) ==
    /\ CanDecrypt
    /\ LET input == Mangle(enc.token, variant)
       IN  dec' = [NoDecrypt EXCEPT !.kind = "malformed", !.input = input,
                                    !.key = privateKey, !.variant = variant,
                                    !.res = decrypt(input, privateKey, issued)]
    /\ UNCHANGED << issued, enc, serverVars >>

CipherNext ==
    \/ Encrypt
    \/ \E privateKey \in Keys : DecryptToken(privateKey)
    \/ DecryptTampered
    \/ \E variant \in MalformedVariants :
          \E privateKey \in {enc.key, KeyMalformed} :
             DecryptMalformed(variant, privateKey)

CipherSpec == CipherInit /\ [][CipherNext]_vars

(***************************************************************************)
(* Properties of the cipher (checked under CipherSpec).                    *)
(***************************************************************************)
\* no surrogate code unit of s is unpaired
IsWellFormed(s) ==
    \A i \in 1..Len(s) :
        /\ IsHighSurrogate(s[i]) => i < Len(s) /\ IsLowSurrogate(s[i + 1])
        /\ IsLowSurrogate(s[i]) => i > 1 /\ IsHighSurrogate(s[i - 1])

NonEmptyString(v) == v.t = "string" /\ v.s # << >>

ChunkError == "Decryption failed for chunk"
CountError == "Invalid chunk count in encrypted data"
StructuralErrors ==
    {"Encrypted data must be a non-empty string",
     "Invalid encrypted data format", CountError}

\* the text of a count field denotes a positive integer: digits, possibly
\* after white space and a '+', of a value of at least 1
IsPositiveIntegerText(f) ==
    LET solid == SelectSeq(f, LAMBDA c : ~IsWhiteSpace(c))
        digits == IF solid # << >> /\ Head(solid) = 43 THEN Tail(solid) ELSE solid
    IN  /\ digits # << >>
        /\ \A i \in 1..Len(digits) : IsDigit(digits[i])
        /\ DigitsValue(digits, 1, Len(digits)) >= 1

\* the token passes the structural checks of decrypt
StructurallyValid(token) ==
    LET parts == TokenParts(token)
        chunkCount == ParseInt(parts[1])
    IN  /\ token # << >>
        /\ Len(parts) >= 2
        /\ ~chunkCount.nan
        /\ chunkCount.value >= 1
        /\ chunkCount.value = Len(parts) - 1

\* the chunk fields of the token given to decrypt that crypto.privateDecrypt
\* throws on under the key given to decrypt
UndecryptableFields ==
    LET fields == ChunkFields(dec.input)
    IN  {k \in 1..Len(fields) :
            ~PrivateDecrypt(dec.key, Base64Decode(fields[k]), issued).ok}

Lowest(S) == CHOOSE k \in S : \A l \in S : k <= l

\* C1 (as stated): for every non-empty string p and every matching key
\* pair, encrypt returns a token and decrypt of it returns exactly p.
C1_RoundTripEveryString ==
    /\ (enc.phase = "encrypted" /\ NonEmptyString(enc.text) /\ enc.key.form = "pem")
          => enc.ok
    /\ (dec.kind = "token" /\ dec.key = enc.key)
          => (dec.res.ok /\ dec.res.text = enc.text.s)

\* C1 (amended): for every non-empty string p without unpaired surrogates
\* and every matching key pair of at least 2048 bits, encrypt returns a
\* token and decrypt of it returns exactly p, whatever the number of chunks;
\* under a smaller key pair the same holds whenever encrypt returns.
C1_RoundTrip ==
    /\ (/\ enc.phase = "encrypted"
        /\ NonEmptyString(enc.text)
        /\ enc.key.form = "pem"
        /\ enc.key.bits >= 2048)
          => enc.ok
    /\ (dec.kind = "token" /\ dec.key = enc.key /\ IsWellFormed(enc.text.s))
          => (dec.res.ok /\ dec.res.text = enc.text.s)

\* a text of multi-octet characters, in several chunks, has made the trip
C1_Witness ==
    /\ dec.kind = "token" /\ dec.key = enc.key
    /\ dec.res.ok /\ dec.res.text = enc.text.s
    /\ Len(TokenParts(enc.token)) > 2
    /\ \E i \in 1..Len(enc.text.s) : enc.text.s[i] > 127

\* C2: the token encrypt returns starts with the decimal text of
\* ceil(|p| / MAX_CHUNK_SIZE), |p| in UTF-8 octets, and that many non-empty
\* chunk fields follow it.
C2_ChunkCount ==
    (enc.phase = "encrypted" /\ enc.ok) =>
        LET size == Len(Utf8Encode(enc.text.s))
            expected == (size + MAX_CHUNK_SIZE - 1) \div MAX_CHUNK_SIZE
            parts == TokenParts(enc.token)
        IN  /\ parts[1] = ToDecimal(expected)
            /\ Len(parts) = expected + 1
            /\ \A k \in 2..Len(parts) : parts[k] # << >>

\* a text of exactly two full chunks, and one of one octet more
C2_Witness ==
    /\ enc.phase = "encrypted" /\ enc.ok
    /\ Len(Utf8Encode(enc.text.s)) \in {2 * MAX_CHUNK_SIZE, 2 * MAX_CHUNK_SIZE + 1}
    /\ Len(TokenParts(enc.token)) = 4

\* C3 (as stated): decrypt rejects with a structural error, before any
\* private-key operation, every token whose count field is not a positive
\* integer or differs from the number of chunk fields.
C3_MalformedRejected ==
    dec.kind # "none" =>
        LET parts == TokenParts(dec.input)
        IN  (\/ ~IsPositiveIntegerText(parts[1])
             \/ ParseInt(parts[1]).value # Len(parts) - 1)
               => (/\ ~dec.res.ok
                   /\ dec.res.error \in StructuralErrors
                   /\ dec.res.privOps = 0)

\* C4 (as stated): every replacement of one character of a chunk field
\* makes decrypt fail with the chunk-decryption error.
C4_TamperAlwaysFails ==
    dec.kind = "tampered" => (~dec.res.ok /\ dec.res.error = ChunkError)

\* C4 (amended): after the replacement of one character of a chunk field,
\* decrypt fails with the chunk-count error when the new character is ':',
\* returns the plaintext of the untampered token when the field still
\* decodes to the same octets, and otherwise fails with the chunk-decryption
\* error naming that chunk; it never returns another plaintext.
C4_TamperDetected ==
    dec.kind = "tampered" =>
        LET j == dec.field
            same == Base64Decode(ChunkFields(enc.token)[j])
                       = Base64Decode(SubSeq(dec.input,
                                             FieldStart(TokenParts(enc.token), j),
                                             FieldStart(TokenParts(enc.token), j)
                                                + Len(ChunkFields(enc.token)[j]) - 1))
        IN  IF dec.input[dec.pos] = 58
            THEN ~dec.res.ok /\ dec.res.error = CountError
            ELSE IF same
            THEN /\ dec.res.ok
                 /\ dec.res.text = decrypt(enc.token, enc.key, issued).text
                 /\ IsWellFormed(enc.text.s) => dec.res.text = enc.text.s
            ELSE ~dec.res.ok /\ dec.res.error = ChunkError /\ dec.res.index = j

\* a replacement in the second chunk field has made decrypt fail on chunk 2
C4_Witness ==
    /\ dec.kind = "tampered" /\ dec.field = 2
    /\ dec.input[dec.pos] # 58
    /\ ~dec.res.ok /\ dec.res.error = ChunkError /\ dec.res.index = 2

\* C5: when crypto.privateDecrypt throws on any chunk of a token that
\* passes the structural checks, decrypt throws and returns no text.
C5_NoPartialPlaintext ==
    (/\ dec.kind # "none"
     /\ StructurallyValid(dec.input)
     /\ UndecryptableFields # {})
        => (~dec.res.ok /\ dec.res.text = << >>)

\* the first chunk decrypts, a later one does not, and decrypt has thrown
C5_Witness ==
    /\ dec.kind = "tampered"
    /\ StructurallyValid(dec.input)
    /\ UndecryptableFields # {}
    /\ 1 \notin UndecryptableFields
    /\ ~dec.res.ok /\ dec.res.text = << >>

\* C6: the chunk error names the 1-based index of the first chunk that
\* crypto.privateDecrypt throws on, and a one-chunk token decrypted with an
\* unrelated private key fails naming chunk 1.
C6_FirstFailingChunkNamed ==
    /\ (dec.kind # "none" /\ dec.res.error = ChunkError)
          => (/\ UndecryptableFields # {}
              /\ dec.res.index = Lowest(UndecryptableFields))
    /\ (/\ dec.kind # "none"
        /\ dec.key.form # "empty"
        /\ StructurallyValid(dec.input)
        /\ UndecryptableFields # {})
          => (dec.res.error = ChunkError
              /\ dec.res.index = Lowest(UndecryptableFields))
    /\ (/\ dec.kind = "token"
        /\ Len(ChunkFields(dec.input)) = 1
        /\ dec.key.form = "pem"
        /\ dec.key.pair # enc.key.pair)
          => (~dec.res.ok /\ dec.res.error = ChunkError /\ dec.res.index = 1)

\* every chunk fails under an unrelated key, and chunk 1 is the one named
C6_Witness ==
    /\ dec.kind = "token"
    /\ dec.key.form = "pem" /\ dec.key.pair # enc.key.pair
    /\ Cardinality(UndecryptableFields) >= 2
    /\ dec.res.error = ChunkError /\ dec.res.index = 1

(***************************************************************************)
(* server.js: its string literals, as UTF-16 code units.                   *)
(***************************************************************************)
Str ==
    \* "Unknown"
    [ Unknown |-> << 85, 110, 107, 110, 111, 119, 110 >>,
    \* "MESSAGE"
      MESSAGE |-> << 77, 69, 83, 83, 65, 71, 69 >>,
    \* "N/A"
      NA |-> << 78, 47, 65 >>,
    \* "data"
      data |-> << 100, 97, 116, 97 >>,
    \* ".txt"
      txt |-> << 46, 116, 120, 116 >>,
    \* "logs.txt"
      logs_txt |-> << 108, 111, 103, 115, 46, 116, 120, 116 >>,
    \* "history"
      history |-> << 104, 105, 115, 116, 111, 114, 121 >>,
    \* "cookies"
      cookies |-> << 99, 111, 111, 107, 105, 101, 115 >>,
    \* "bookmarks"
      bookmarks |-> << 98, 111, 111, 107, 109, 97, 114, 107, 115 >>,
    \* "downloads"
      downloads |-> << 100, 111, 119, 110, 108, 111, 97, 100, 115 >>,
    \* "opened"
      opened |-> << 111, 112, 101, 110, 101, 100 >>,
    \* "input"
      input |-> << 105, 110, 112, 117, 116 >>,
    \* "geolocation"
      geolocation |-> << 103, 101, 111, 108, 111, 99, 97, 116, 105, 111,
          110 >>,
    \* "null"
      null |-> << 110, 117, 108, 108 >>,
    \* "undefined"
      undefined |-> << 117, 110, 100, 101, 102, 105, 110, 101, 100 >>,
    \* "  Field: "
      Field |-> << 32, 32, 70, 105, 101, 108, 100, 58, 32 >>,
    \* "  Message: "
      Message |-> << 32, 32, 77, 101, 115, 115, 97, 103, 101, 58, 32 >>,
    \* "  Data: "
      Data |-> << 32, 32, 68, 97, 116, 97, 58, 32 >>,
    \* "---\n\n"
      Separator |-> << 45, 45, 45, 10, 10 >>,
    \* "receivekey.txt"
      receivekey_txt |-> << 114, 101, 99, 101, 105, 118, 101, 107, 101,
          121, 46, 116, 120, 116 >>,
    \* "accesskey.txt"
      accesskey_txt |-> << 97, 99, 99, 101, 115, 115, 107, 101, 121, 46,
          116, 120, 116 >>,
    \* "public-key.txt"
      public_key_txt |-> << 112, 117, 98, 108, 105, 99, 45, 107, 101, 121,
          46, 116, 120, 116 >>,
    \* "-----BEGIN PUBLIC KEY-----"
      BeginPublicKey |-> << 45, 45, 45, 45, 45, 66, 69, 71, 73, 78, 32, 80,
          85, 66, 76, 73, 67, 32, 75, 69, 89, 45, 45, 45, 45, 45 >>,
    \* "-----END PUBLIC KEY-----"
      EndPublicKey |-> << 45, 45, 45, 45, 45, 69, 78, 68, 32, 80, 85, 66,
          76, 73, 67, 32, 75, 69, 89, 45, 45, 45, 45, 45 >> ]

(***************************************************************************)
(* JavaScript values of a request body and the operations the handler     *)
(* applies to them.                                                        *)
(***************************************************************************)
JsNull == [t |-> "null", s |-> << >>]
\* a number, held as its decimal text
JsNumber(s) == [t |-> "number", s |-> s]
\* an array of strings
JsArray(items) == [t |-> "array", s |-> << >>, items |-> items]

\* ToBoolean(v), as applied by !v, v || w and v ? a : b
Truthy(v) ==
    CASE v.t = "string" -> v.s # << >>
      [] v.t = "number" -> v.s # << 48 >>
      [] v.t \in {"undefined", "null"} -> FALSE
      [] OTHER -> TRUE

\* v || w
OrElse(v, w) == IF Truthy(v) THEN v ELSE w

\* String.prototype.toLowerCase / toUpperCase on the ASCII letters the
\* inputs are made of
ToLowerCase(s) ==
    [i \in 1..Len(s) |-> IF s[i] >= 65 /\ s[i] <= 90 THEN s[i] + 32 ELSE s[i]]

ToUpperCase(s) ==
    [i \in 1..Len(s) |-> IF s[i] >= 97 /\ s[i] <= 122 THEN s[i] - 32 ELSE s[i]]

\* String.prototype.trim
TrimStart(s) ==
    LET kept == {i \in 1..Len(s) : ~IsWhiteSpace(s[i])}
    IN  IF kept = {} THEN << >>
        ELSE Slice(s, (CHOOSE i \in kept : \A k \in kept : i <= k) - 1, Len(s))

TrimEnd(s) ==
    LET kept == {i \in 1..Len(s) : ~IsWhiteSpace(s[i])}
    IN  IF kept = {} THEN << >>
        ELSE Slice(s, 0, CHOOSE i \in kept : \A k \in kept : i >= k)

Trim(s) == TrimEnd(TrimStart(s))

\* the text a template literal `${v}` interpolates
TemplateText(v) ==
    CASE v.t \in {"string", "number"} -> v.s
      [] v.t = "null" -> Str.null
      [] v.t = "undefined" -> Str.undefined
      [] OTHER -> JoinWith(v.items, 44)

(***************************************************************************)
(* JSON.stringify on the values a request body carries.                    *)
(***************************************************************************)
HexDigit(d) == IF d < 10 THEN 48 + d ELSE 87 + d

\* \uXXXX, in lower-case hexadecimal
UnicodeEscape(u) ==
    << 92, 117, HexDigit(u \div 4096), HexDigit((u \div 256) % 16),
       HexDigit((u \div 16) % 16), HexDigit(u % 16) >>

\* QuoteJSONString's text for the code unit at index i of s
JsonQuoteAt(s, i) ==
    LET u == s[i]
    IN  CASE u = 8 -> << 92, 98 >>
          [] u = 9 -> << 92, 116 >>
          [] u = 10 -> << 92, 110 >>
          [] u = 12 -> << 92, 102 >>
          [] u = 13 -> << 92, 114 >>
          [] u = 34 -> << 92, 34 >>
          [] u = 92 -> << 92, 92 >>
          [] u < 32 -> UnicodeEscape(u)
          [] IsHighSurrogate(u) ->
                IF i < Len(s) /\ IsLowSurrogate(s[i + 1])
                THEN << u >> ELSE UnicodeEscape(u)
          [] IsLowSurrogate(u) ->
                IF i > 1 /\ IsHighSurrogate(s[i - 1])
                THEN << u >> ELSE UnicodeEscape(u)
          [] OTHER -> << u >>

JsonQuote(s) ==
    << 34 >> \o Concat([i \in 1..Len(s) |-> JsonQuoteAt(s, i)]) \o << 34 >>

\* JSON.stringify(v): a string, or undefined when v is undefined
JsonStringify(v) ==
    CASE v.t = "undefined" -> JsUndefined
      [] v.t = "null" -> JsString(Str.null)
      [] v.t = "number" -> JsString(v.s)
      [] v.t = "string" -> JsString(JsonQuote(v.s))
      [] OTHER ->
            JsString(<< 91 >>
                     \o JoinWith([j \in 1..Len(v.items) |->
                                     JsonQuote(v.items[j])], 44)
                     \o << 93 >>)

(***************************************************************************)
(* The file system below __dirname.  A path is the sequence of its         *)
(* segments; dirs holds the directories and files the files' contents.     *)
(***************************************************************************)
\* the segments of a path, "." and ".." resolved as path.normalize does
RECURSIVE NormalizeSegments(_, _)
NormalizeSegments(segments, done) ==
    IF segments = << >> THEN done
    ELSE LET seg == Head(segments)
             next ==
                 CASE seg = << >> \/ seg = << 46 >> -> done
                   [] seg = << 46, 46 >> ->
                         IF done # << >> /\ done[Len(done)] # << 46, 46 >>
                         THEN SubSeq(done, 1, Len(done) - 1)
                         ELSE Append(done, seg)
                   [] OTHER -> Append(done, seg)
         IN  NormalizeSegments(Tail(segments), next)

\* path.join(dir, name)
PathJoin(dir, name) == NormalizeSegments(dir \o Split(name, 47), << >>)

Parent(path) == SubSeq(path, 1, Len(path) - 1)

Prefixes(path) == {SubSeq(path, 1, n) : n \in 1..Len(path)}

IsDirectory(path, dirSet) == path = << >> \/ path \in dirSet

\* fs.existsSync(path)
ExistsSync(path, dirSet, fileMap) ==
    IsDirectory(path, dirSet) \/ path \in DOMAIN fileMap

\* fs.mkdirSync(path, { recursive: true }) throws when a file is in the way
MkdirThrows(path, fileMap) ==
    \E q \in Prefixes(path) : q \in DOMAIN fileMap

MkdirSync(path, dirSet) == dirSet \cup Prefixes(path)

\* fs.writeFileSync / fs.appendFileSync throw on a directory and on a
\* missing parent directory
WriteThrows(path, dirSet) ==
    \/ IsDirectory(path, dirSet)
    \/ ~IsDirectory(Parent(path), dirSet)

\* mutation of WriteFileSync: the file is written from its start without
\* being truncated
WriteFileSyncInPlace(path, content, fileMap) ==
    [q \in DOMAIN fileMap \cup {path} |->
        IF q # path THEN fileMap[q]
        ELSE IF path \in DOMAIN fileMap /\ Len(fileMap[path]) > Len(content)
        THEN content \o SubSeq(fileMap[path], Len(content) + 1,
                               Len(fileMap[path]))
        ELSE content]

\* fs.writeFileSync(path, content, 'utf8')
WriteFileSync(path, content, fileMap) ==
    [q \in DOMAIN fileMap \cup {path} |->
        IF q = path THEN content ELSE fileMap[q]]

\* mutation of AppendFileSync: the content lands inside the last record of
\* the file, before its final two octets
AppendFileSyncSplicing(path, content, fileMap) ==
    [q \in DOMAIN fileMap \cup {path} |->
        IF q # path THEN fileMap[q]
        ELSE IF path \in DOMAIN fileMap /\ Len(fileMap[path]) >= 2
        THEN SubSeq(fileMap[path], 1, Len(fileMap[path]) - 2) \o content
             \o SubSeq(fileMap[path], Len(fileMap[path]) - 1,
                       Len(fileMap[path]))
        ELSE content]

\* mutation of AppendFileSync: the file is opened for writing, not appending
AppendFileSyncTruncating(path, content, fileMap) ==
    [q \in DOMAIN fileMap \cup {path} |->
        IF q = path THEN content ELSE fileMap[q]]

AppendFileSync(path, content, fileMap) ==
    [q \in DOMAIN fileMap \cup {path} |->
        IF q = path
        THEN (IF path \in DOMAIN fileMap THEN fileMap[path] ELSE << >>)
             \o content
        ELSE fileMap[q]]

(***************************************************************************)
(* server.js, start-up: readKey, getPublicKey, the required-key checks and *)
(* the data directory.                                                     *)
(***************************************************************************)
\* String.prototype.includes
Includes(s, sub) ==
    \E i \in 0..(Len(s) - Len(sub)) : SubSeq(s, i + 1, i + Len(sub)) = sub

\* the base64 body of the PEM text of each public key of the model
PemBody(key) ==
    CASE key = KeyA -> << 77, 73, 73, 66, 65 >>
      [] key = KeyB -> << 77, 73, 73, 66, 66 >>
      [] key = KeySmall -> << 77, 73, 71, 102 >>
      [] OTHER -> << 106, 117, 110, 107 >>

PemText(key) ==
    Str.BeginPublicKey \o << 10 >> \o PemBody(key) \o << 10 >>
    \o Str.EndPublicKey

\* the key crypto.publicEncrypt reads from a PEM text
PemKey(keyContent) ==
    IF keyContent = << >> THEN KeyEmpty
    ELSE IF \E key \in {KeyA, KeyB, KeySmall} : keyContent = PemText(key)
    THEN CHOOSE key \in {KeyA, KeyB, KeySmall} : keyContent = PemText(key)
    ELSE KeyMalformed

\* fs.readFileSync(path.join(__dirname, filePath), 'utf8') when the file
\* exists, undefined otherwise
ReadKeyFile(filePath, fileMap) ==
    IF << filePath >> \in DOMAIN fileMap
    THEN JsString(Utf8Decode(fileMap[<< filePath >>]))
    ELSE JsUndefined

\* readKey(keyName, filePath), env being process.env
readKey(keyName, filePath, env, fileMap) ==
    IF Truthy(env[keyName]) THEN JsString(Trim(env[keyName].s))
    ELSE LET content == ReadKeyFile(filePath, fileMap)
         IN  IF content.t = "string" THEN JsString(Trim(content.s))
             ELSE JsNull

\* getPublicKey(): the PEM text, or null where the code throws
getPublicKey(env, fileMap) ==
    LET keyContent == readKey("PUBLIC_KEY", Str.public_key_txt, env, fileMap)
    IN  IF ~Truthy(keyContent) THEN JsNull
        ELSE IF Includes(keyContent.s, Str.BeginPublicKey) THEN keyContent
        ELSE JsString(Str.BeginPublicKey \o << 10 >> \o keyContent.s
                      \o << 10 >> \o Str.EndPublicKey)

\* DATA_DIR = path.join(__dirname, 'data')
DATA_DIR == << Str.data >>

\* process.env: every combination of set and unset keys the checks tell
\* apart; the environment of the unusable public key sets one value for both
\* secrets
EnvSecret1 == JsString(<< 107, 49, 10 >>)
EnvSecret2 == JsString(<< 32, 107, 50 >>)
Secret1 == JsString(<< 107, 49 >>)
Secret2 == JsString(<< 107, 50 >>)

Env(apiKey, accessKey, publicKey) ==
    [API_KEY |-> apiKey, ACCESS_KEY |-> accessKey, PUBLIC_KEY |-> publicKey]

Environments ==
    { Env(EnvSecret1, EnvSecret2, JsString(PemBody(KeyA))),
      Env(JsUndefined, JsUndefined, JsUndefined),
      Env(JsUndefined, EnvSecret2, JsString(PemBody(KeyA))),
      Env(EnvSecret1, JsString(<< 32 >>), JsString(PemText(KeyA))),
      Env(EnvSecret1, EnvSecret2, JsString(<< >>)),
      Env(EnvSecret1, EnvSecret1, JsString(PemBody(KeyMalformed))) }

\* the key files of a local installation
KeyFiles ==
    [q \in { << Str.receivekey_txt >>, << Str.accesskey_txt >>,
             << Str.public_key_txt >> } |->
        CASE q = << Str.receivekey_txt >> -> Utf8Encode(Secret1.s \o << 10 >>)
          [] q = << Str.accesskey_txt >> -> Utf8Encode(Secret2.s)
          [] OTHER -> Utf8Encode(PemText(KeyA) \o << 10 >>)]

InitialDisks == { << >>, KeyFiles }

Init ==
    /\ issued = << >>
    /\ enc = [phase |-> "idle", text |-> JsUndefined, key |-> KeyEmpty,
              ok |-> FALSE, error |-> "", token |-> << >>]
    /\ dec = NoDecrypt
    /\ proc = "loading"
    /\ config = NoConfig
    /\ dirs = {}
    /\ files \in InitialDisks
    /\ last = NoRequest
    /\ served = 0
    /\ res = NoResponse

\* mutation of RequiredKeyMissing: the access secret is not required
RequiredKeyMissingButAccess(apiKey, accessKey, publicKey) ==
    publicKey.t = "null" \/ ~Truthy(apiKey)

\* getPublicKey() threw, or !API_KEY, or !ACCESS_KEY
RequiredKeyMissing(apiKey, accessKey, publicKey) ==
    publicKey.t = "null" \/ ~Truthy(apiKey) \/ ~Truthy(accessKey)

\* the module body of server.js up to app.listen
Startup(env) ==
    /\ proc = "loading"
    /\ LET apiKey == readKey("API_KEY", Str.receivekey_txt, env, files)
           accessKey == readKey("ACCESS_KEY", Str.accesskey_txt, env, files)
           publicKey == getPublicKey(env, files)
       IN  IF RequiredKeyMissing(apiKey, accessKey, publicKey)
           THEN /\ proc' = "exited"
                /\ UNCHANGED << config, dirs >>
           ELSE /\ proc' = "listening"
                /\ config' = [API_KEY |-> apiKey, ACCESS_KEY |-> accessKey,
                              PUBLIC_KEY |-> publicKey]
                /\ dirs' = IF ExistsSync(DATA_DIR, dirs, files) THEN dirs
                           ELSE MkdirSync(DATA_DIR, dirs)
    /\ UNCHANGED << cipherVars, files, last, served, res >>

(***************************************************************************)
(* server.js: app.post('/api').  A request body is the record of the       *)
(* seven fields the handler destructures, an absent field being undefined. *)
(***************************************************************************)
CategoryTypes == {Str.history, Str.cookies, Str.bookmarks, Str.downloads}
RecordTypes == {Str.opened, Str.input}
\* mutation of LogTypes: every type is a log type
LogTypesEvery == Seq(0..65535)
LogTypes == RecordTypes \cup {Str.geolocation}

\* what the handler leaves behind: the response and the state it changed
Responded(status, reply, message, dirSet, fileMap, table) ==
    [status |-> status, reply |-> reply, message |-> message,
     dirs |-> dirSet, files |-> fileMap, issued |-> table]

\* res.json({ success: true, message: 'Message received' })
Succeeded(dirSet, fileMap, table) ==
    Responded(200, "success", "Message received", dirSet, fileMap, table)

\* mutation of Failed: the error is not caught and no response is sent
FailedUnanswered(message, dirSet, fileMap, table) ==
    Responded(0, "none", message, dirSet, fileMap, table)

\* res.status(500).json({ error: 'Internal server error', message })
Failed(message, dirSet, fileMap, table) ==
    Responded(500, "error", message, dirSet, fileMap, table)

\* mutation of ensureUserFolder: the directory is made without looking for
\* it first, which fs.mkdirSync refuses for a path that exists
ensureUserFolderUnguarded(email, dirSet, fileMap) ==
    IF email.t # "string"
    THEN [ok |-> FALSE, userFolder |-> << >>, dirs |-> dirSet]
    ELSE LET userFolder == PathJoin(DATA_DIR, email.s)
         IN  IF ExistsSync(userFolder, dirSet, fileMap)
                \/ MkdirThrows(userFolder, fileMap)
             THEN [ok |-> FALSE, userFolder |-> userFolder, dirs |-> dirSet]
             ELSE [ok |-> TRUE, userFolder |-> userFolder,
                   dirs |-> MkdirSync(userFolder, dirSet)]

\* ensureUserFolder(email): the folder, and the directories afterwards
ensureUserFolder(email, dirSet, fileMap) ==
    IF email.t # "string"
    THEN [ok |-> FALSE, userFolder |-> << >>, dirs |-> dirSet]
    ELSE LET userFolder == PathJoin(DATA_DIR, email.s)
         IN  IF ExistsSync(userFolder, dirSet, fileMap)
             THEN [ok |-> TRUE, userFolder |-> userFolder, dirs |-> dirSet]
             ELSE IF MkdirThrows(userFolder, fileMap)
             THEN [ok |-> FALSE, userFolder |-> userFolder, dirs |-> dirSet]
             ELSE [ok |-> TRUE, userFolder |-> userFolder,
                   dirs |-> MkdirSync(userFolder, dirSet)]

\* Type?.toUpperCase() and Type?.toLowerCase() throw on a Type that is
\* neither nullish nor a string
TypeCaseThrows(Type) == Type.t \notin {"undefined", "null", "string"}

\* Type?.toUpperCase() || 'MESSAGE'
TypeUpper(Type) ==
    IF Type.t = "string" /\ Type.s # << >> THEN ToUpperCase(Type.s)
    ELSE Str.MESSAGE

\* Type?.toLowerCase()
MessageType(Type) ==
    IF Type.t = "string" THEN JsString(ToLowerCase(Type.s)) ELSE JsUndefined

\* mutation of SaveCategory: the token is appended to the category file
SaveCategoryAppending(body, messageType, userFolder, cfg, dirSet, fileMap, table) ==
    LET filePath == PathJoin(userFolder, messageType \o Str.txt)
        encryptedContent ==
            encrypt(JsonStringify(body.Data), PemKey(cfg.PUBLIC_KEY.s), table)
    IN  IF ~encryptedContent.ok
        THEN Failed(encryptedContent.error, dirSet, fileMap, table)
        ELSE IF WriteThrows(filePath, dirSet)
        THEN Failed("writeFileSync failed", dirSet, fileMap,
                    encryptedContent.table)
        ELSE Succeeded(dirSet,
                       AppendFileSync(filePath,
                                      Utf8Encode(encryptedContent.token),
                                      fileMap),
                       encryptedContent.table)

\* mutation of SaveCategory: the category file is opened for writing, and
\* so emptied, before the content is encrypted
SaveCategoryTruncatingFirst(body, messageType, userFolder, cfg, dirSet, fileMap, table) ==
    LET filePath == PathJoin(userFolder, messageType \o Str.txt)
        encryptedContent ==
            encrypt(JsonStringify(body.Data), PemKey(cfg.PUBLIC_KEY.s), table)
    IN  IF WriteThrows(filePath, dirSet)
        THEN Failed("writeFileSync failed", dirSet, fileMap, table)
        ELSE IF ~encryptedContent.ok
        THEN Failed(encryptedContent.error, dirSet,
                    WriteFileSync(filePath, << >>, fileMap), table)
        ELSE Succeeded(dirSet,
                       WriteFileSync(filePath,
                                     Utf8Encode(encryptedContent.token),
                                     fileMap),
                       encryptedContent.table)

\* the category branch
SaveCategory(body, messageType, userFolder, cfg, dirSet, fileMap, table) ==
    LET fileName == messageType \o Str.txt
        filePath == PathJoin(userFolder, fileName)
        jsonContent == JsonStringify(body.Data)
        encryptedContent == encrypt(jsonContent, PemKey(cfg.PUBLIC_KEY.s), table)
    IN  IF ~encryptedContent.ok
        THEN Failed(encryptedContent.error, dirSet, fileMap, table)
        ELSE IF WriteThrows(filePath, dirSet)
        THEN Failed("writeFileSync failed", dirSet, fileMap,
                    encryptedContent.table)
        ELSE Succeeded(dirSet,
                       WriteFileSync(filePath,
                                     Utf8Encode(encryptedContent.token),
                                     fileMap),
                       encryptedContent.table)

\* the text the log branch appends
LogEntry(body, messageType, timestamp, typeUpper) ==
    << 91 >> \o timestamp \o << 93, 32 >> \o typeUpper \o << 10 >>
    \o (IF messageType \in RecordTypes
        THEN Str.Field
             \o TemplateText(OrElse(body.Field, JsString(Str.NA)))
             \o << 10 >> \o Str.Message
             \o TemplateText(OrElse(body.Message, JsString(Str.NA)))
             \o << 10 >>
        ELSE Str.Data
             \o (IF Truthy(body.Data) THEN JsonStringify(body.Data).s
                 ELSE Str.NA)
             \o << 10 >>)
    \o Str.Separator

\* mutation of AppendLog: the entry replaces the log
AppendLogOverwriting(body, messageType, timestamp, typeUpper, userFolder, dirSet, fileMap, table) ==
    LET logsPath == PathJoin(userFolder, Str.logs_txt)
        logEntry == LogEntry(body, messageType, timestamp, typeUpper)
    IN  IF WriteThrows(logsPath, dirSet)
        THEN Failed("appendFileSync failed", dirSet, fileMap, table)
        ELSE Succeeded(dirSet,
                       WriteFileSync(logsPath, Utf8Encode(logEntry), fileMap),
                       table)

\* the log branch
AppendLog(body, messageType, timestamp, typeUpper, userFolder, dirSet, fileMap, table) ==
    LET logsPath == PathJoin(userFolder, Str.logs_txt)
        logEntry == LogEntry(body, messageType, timestamp, typeUpper)
    IN  IF WriteThrows(logsPath, dirSet)
        THEN Failed("appendFileSync failed", dirSet, fileMap, table)
        ELSE Succeeded(dirSet,
                       AppendFileSync(logsPath, Utf8Encode(logEntry), fileMap),
                       table)

\* mutation of PostApiAuthorized: Email is used without its default
PostApiAuthorizedUndefaulted(body, now, cfg, dirSet, fileMap, table) ==
    LET folder == ensureUserFolder(JsString(TemplateText(body.Email)),
                                   dirSet, fileMap)
        timestamp == TemplateText(OrElse(body.Time, JsString(now)))
        messageType == MessageType(body.Type)
    IN  IF ~folder.ok
        THEN Failed("ensureUserFolder failed", dirSet, fileMap, table)
        ELSE IF TypeCaseThrows(body.Type)
        THEN Failed("Type?.toUpperCase is not a function",
                    folder.dirs, fileMap, table)
        ELSE IF messageType.t = "string" /\ messageType.s \in CategoryTypes
        THEN SaveCategory(body, messageType.s, folder.userFolder, cfg,
                          folder.dirs, fileMap, table)
        ELSE IF messageType.t = "string" /\ messageType.s \in LogTypes
        THEN AppendLog(body, messageType.s, timestamp, TypeUpper(body.Type),
                       folder.userFolder, folder.dirs, fileMap, table)
        ELSE Succeeded(folder.dirs, fileMap, table)

\* the handler without its key check
PostApiAuthorized(body, now, cfg, dirSet, fileMap, table) ==
    LET userEmail == OrElse(body.Email, JsString(Str.Unknown))
        folder == ensureUserFolder(userEmail, dirSet, fileMap)
        timestamp == TemplateText(OrElse(body.Time, JsString(now)))
        messageType == MessageType(body.Type)
    IN  IF ~folder.ok
        THEN Failed("ensureUserFolder failed", dirSet, fileMap, table)
        ELSE IF TypeCaseThrows(body.Type)
        THEN Failed("Type?.toUpperCase is not a function",
                    folder.dirs, fileMap, table)
        ELSE IF messageType.t = "string" /\ messageType.s \in CategoryTypes
        THEN SaveCategory(body, messageType.s, folder.userFolder, cfg,
                          folder.dirs, fileMap, table)
        ELSE IF messageType.t = "string" /\ messageType.s \in LogTypes
        THEN AppendLog(body, messageType.s, timestamp, TypeUpper(body.Type),
                       folder.userFolder, folder.dirs, fileMap, table)
        ELSE Succeeded(folder.dirs, fileMap, table)

\* mutation of PostApi: the key check compares against the access secret
PostApiAccessKey(body, now, cfg, dirSet, fileMap, table) ==
    IF body.key # cfg.ACCESS_KEY
    THEN Responded(401, "unauthorized", "Unauthorized", dirSet, fileMap, table)
    ELSE PostApiAuthorized(body, now, cfg, dirSet, fileMap, table)

\* mutation of PostApi: the identity's folder is made before the key is
\* looked at
PostApiLateCheck(body, now, cfg, dirSet, fileMap, table) ==
    IF body.key # cfg.API_KEY
    THEN Responded(401, "unauthorized", "Unauthorized",
                   ensureUserFolder(OrElse(body.Email, JsString(Str.Unknown)),
                                    dirSet, fileMap).dirs,
                   fileMap, table)
    ELSE PostApiAuthorized(body, now, cfg, dirSet, fileMap, table)

\* app.post('/api', ...): the whole handler
PostApi(body, now, cfg, dirSet, fileMap, table) ==
    IF body.key # cfg.API_KEY
    THEN Responded(401, "unauthorized", "Unauthorized", dirSet, fileMap, table)
    ELSE PostApiAuthorized(body, now, cfg, dirSet, fileMap, table)

(***************************************************************************)
(* The requests posted to /api.                                            *)
(***************************************************************************)
\* identities, types and the clock reading of the requests
Sample ==
    \* "alice"
    [ alice |-> << 97, 108, 105, 99, 101 >>,
    \* "bob"
      bob |-> << 98, 111, 98 >>,
    \* "alice/logs.txt"
      alice_logs |-> << 97, 108, 105, 99, 101, 47, 108, 111, 103, 115, 46,
          116, 120, 116 >>,
    \* "alice/cookies.txt"
      alice_cookies |-> << 97, 108, 105, 99, 101, 47, 99, 111, 111, 107,
          105, 101, 115, 46, 116, 120, 116 >>,
    \* "Cookies"
      Cookies |-> << 67, 111, 111, 107, 105, 101, 115 >>,
    \* "HISTORY"
      HISTORY |-> << 72, 73, 83, 84, 79, 82, 89 >>,
    \* "Opened"
      Opened |-> << 79, 112, 101, 110, 101, 100 >>,
    \* "ping"
      ping |-> << 112, 105, 110, 103 >>,
    \* "11/4/2026, 9:00:00 AM"
      Now |-> << 49, 49, 47, 52, 47, 50, 48, 50, 54, 44, 32, 57, 58, 48,
          48, 58, 48, 48, 32, 65, 77 >> ]

Body(Type, Email, Time, Field, Message, Data, key) ==
    [Type |-> Type, Email |-> Email, Time |-> Time, Field |-> Field,
     Message |-> Message, Data |-> Data, key |-> key]

\* new Date().toLocaleString()
ClockReadings == {Sample.Now}

\* the Data, Field, Message and Time of the requests
Payload ==
    \* "a\"" followed by the euro sign
    [ DataText |-> JsString(<< 97, 34, 8364 >>),
    \* an unpaired high surrogate followed by "x"
      DataLone |-> JsString(<< 55357, 120 >>),
    \* four strings of fifty characters: more than one chunk of JSON text
      DataList |-> JsArray([j \in 1..4 |-> Repeat(<< 96 + j >>, 50)]),
    \* "q1"
      FieldText |-> JsString(<< 113, 49 >>),
    \* "q" followed by an unpaired low surrogate
      FieldLone |-> JsString(<< 113, 56832 >>),
    \* "hi"
      MessageText |-> JsString(<< 104, 105 >>),
    \* "t0"
      TimeText |-> JsString(<< 116, 48 >>) ]

\* a category message with the API secret
CategoryBody(Type, Email, Data) ==
    Body(JsString(Type), Email, JsUndefined, JsUndefined, JsUndefined, Data,
         Secret1)

\* the category messages; the identities "alice/logs.txt" and ".." are paths
CategoryBodies ==
    { CategoryBody(Type, JsString(Sample.alice), Payload.DataText) :
         Type \in {Sample.Cookies, Sample.HISTORY, Str.bookmarks, Str.downloads} }
    \cup { CategoryBody(Sample.Cookies, JsString(Sample.alice), Payload.DataList),
           CategoryBody(Sample.Cookies, JsUndefined, Payload.DataLone),
           CategoryBody(Sample.Cookies, JsString(Sample.bob), JsUndefined),
           CategoryBody(Sample.Cookies, JsString(Sample.bob), JsNull),
           CategoryBody(Sample.HISTORY, JsString(Sample.alice_logs), Payload.DataText),
           CategoryBody(Sample.Cookies, JsString(<< 46, 46 >>), Payload.DataText) }

LogBodies ==
    { Body(JsString(Sample.Opened), JsString(Sample.alice), Payload.TimeText, Payload.FieldText,
           Payload.MessageText, JsUndefined, Secret1),
      Body(JsString(Str.input), JsString(Sample.alice), JsUndefined, JsUndefined,
           JsUndefined, JsUndefined, Secret1),
      Body(JsString(Str.input), JsUndefined, JsUndefined, Payload.FieldLone,
           Payload.MessageText, JsUndefined, Secret1),
      Body(JsString(Str.geolocation), JsString(Sample.alice), JsUndefined,
           JsUndefined, JsUndefined, Payload.DataText, Secret1),
      Body(JsString(Str.geolocation), JsString(Sample.alice), Payload.TimeText,
           JsUndefined, JsUndefined, JsUndefined, Secret1) }

\* a message of no category and no log type, with the API secret
OtherBody(Type, Email) ==
    Body(Type, Email, JsUndefined, Payload.FieldText, Payload.MessageText, JsUndefined,
         Secret1)

OtherBodies ==
    { OtherBody(JsUndefined, JsString(Sample.alice)),
      OtherBody(JsString(Sample.ping), JsString(Sample.bob)),
      OtherBody(JsNumber(<< 53 >>), JsString(Sample.bob)),
      OtherBody(JsString(Sample.ping), JsString(Sample.alice_logs)),
      OtherBody(JsString(Sample.ping), JsString(Sample.alice_cookies)) }

\* messages whose key is not the API secret
UnauthorizedBodies ==
    { Body(JsString(Sample.Cookies), JsString(Sample.alice), JsUndefined,
           JsUndefined, JsUndefined, Payload.DataText, JsUndefined),
      Body(JsString(Sample.Opened), JsString(Sample.alice), Payload.TimeText, Payload.FieldText,
           Payload.MessageText, JsUndefined, Secret2),
      Body(JsString(Sample.ping), JsString(Sample.bob), JsUndefined, JsUndefined,
           JsUndefined, JsUndefined, EnvSecret1) }

Bodies == CategoryBodies \cup LogBodies \cup OtherBodies
          \cup UnauthorizedBodies

(***************************************************************************)
(* server.js: the read endpoints of the dashboard.  A read changes nothing *)
(* on disk; what it leaves behind is its response, with the paths it       *)
(* handed to fs on the way.                                                *)
(***************************************************************************)
\* decodeURIComponent(s): every "%XX" escape is replaced by the character
\* its octets encode in UTF-8; a '%' that starts no escape and octets that
\* are no well-formed UTF-8 raise URIError (ok is FALSE)
decodeURIComponent(s) ==
    LET HexValue(c) ==
            CASE c \in 48..57 -> c - 48
              [] c \in 65..70 -> c - 55
              [] c \in 97..102 -> c - 87
              [] OTHER -> -1
        \* the octet the escape at s[i] denotes, -1 where there is none
        EscapedOctet(i) ==
            IF i + 2 <= Len(s) /\ s[i] = 37 /\ HexValue(s[i + 1]) >= 0
               /\ HexValue(s[i + 2]) >= 0
            THEN 16 * HexValue(s[i + 1]) + HexValue(s[i + 2])
            ELSE -1
        RECURSIVE DecodeFrom(_, _)
        DecodeFrom(i, done) ==
            IF i > Len(s) THEN [ok |-> TRUE, s |-> done]
            ELSE IF s[i] # 37 THEN DecodeFrom(i + 1, Append(done, s[i]))
            ELSE LET first == EscapedOctet(i)
                     n == IF first < 128 THEN 1
                          ELSE IF first \in 192..223 THEN 2
                          ELSE IF first \in 224..239 THEN 3
                          ELSE IF first \in 240..247 THEN 4
                          ELSE 0
                     octets ==
                         [k \in 1..n |-> EscapedOctet(i + 3 * (k - 1))]
                 IN  IF first < 0 \/ n = 0 \/ \E k \in 1..n : octets[k] < 0
                     THEN [ok |-> FALSE, s |-> << >>]
                     ELSE IF Utf8Encode(Utf8Decode(octets)) # octets
                     THEN [ok |-> FALSE, s |-> << >>]
                     ELSE DecodeFrom(i + 3 * n, done \o Utf8Decode(octets))
    IN  DecodeFrom(1, << >>)

\* the file names the dashboard knows
allowedFiles ==
    << Str.history \o Str.txt, Str.cookies \o Str.txt,
       Str.bookmarks \o Str.txt, Str.downloads \o Str.txt, Str.logs_txt >>

\* the response of a read and the paths the handler handed to fs.  401 is
\* res.status(401).json({ error: 'Unauthorized' }); the URIError that
\* decodeURIComponent raises outside every try block is answered 500 by the
\* framework's error handler
Answered(status, reply, users, entries, content, touched) ==
    [status |-> status, reply |-> reply, users |-> users,
     files |-> entries, content |-> content, touched |-> touched]

\* mutation of KeyRefused: the ingestion secret opens the read endpoints too
KeyRefusedUnlessIngestion(key, cfg) ==
    key # cfg.ACCESS_KEY /\ key # cfg.API_KEY

\* key !== ACCESS_KEY
KeyRefused(key, cfg) == key # cfg.ACCESS_KEY

\* mutation of GetUsers: the directories are listed at every depth
GetUsersRecursive(key, cfg, dirSet, fileMap) ==
    IF KeyRefused(key, cfg)
    THEN Answered(401, "Unauthorized", {}, << >>, << >>, {})
    ELSE Answered(200, "users",
                  {q[Len(q)] : q \in {p \in dirSet :
                                         Len(p) > Len(DATA_DIR)
                                         /\ p[1] = DATA_DIR[1]}},
                  << >>, << >>, {DATA_DIR})

\* app.get('/api/users'): fs.readdirSync(DATA_DIR) filtered by
\* fs.statSync(itemPath).isDirectory()
GetUsers(key, cfg, dirSet, fileMap) ==
    IF KeyRefused(key, cfg) THEN Answered(401, "Unauthorized", {}, << >>, << >>, {})
    ELSE IF ~ExistsSync(DATA_DIR, dirSet, fileMap)
    THEN Answered(200, "users", {}, << >>, << >>, {DATA_DIR})
    ELSE Answered(200, "users",
                  {q[Len(q)] : q \in {p \in dirSet :
                                         Len(p) = Len(DATA_DIR) + 1
                                         /\ Parent(p) = DATA_DIR}},
                  << >>, << >>,
                  {DATA_DIR}
                  \cup {q \in dirSet \cup DOMAIN fileMap :
                           Len(q) = Len(DATA_DIR) + 1
                           /\ Parent(q) = DATA_DIR})

\* the entry of one file in the list of app.get('/api/user/:email/files');
\* stats.mtime is left out, the model keeping no clock of the writes, and
\* the size the platform reports for a directory is shown as 0
FileEntry(fileName, filePath, fileMap) ==
    [name |-> fileName,
     size |-> IF filePath \in DOMAIN fileMap THEN Len(fileMap[filePath])
              ELSE 0,
     encrypted |-> fileName # Str.logs_txt]

\* app.get('/api/user/:email/files'), email being req.params.email
GetUserFiles(key, email, cfg, dirSet, fileMap) ==
    LET decoded == decodeURIComponent(email)
        userFolder == PathJoin(DATA_DIR, decoded.s)
        present == SelectSeq(allowedFiles,
                       LAMBDA fileName :
                           ExistsSync(PathJoin(userFolder, fileName),
                                      dirSet, fileMap))
    IN  IF ~decoded.ok THEN Answered(500, "URIError", {}, << >>, << >>, {})
        ELSE IF KeyRefused(key, cfg) THEN Answered(401, "Unauthorized", {}, << >>, << >>, {})
        ELSE IF ~ExistsSync(userFolder, dirSet, fileMap)
        THEN Answered(200, "files", {}, << >>, << >>, {userFolder})
        ELSE Answered(200, "files", {},
                      [k \in 1..Len(present) |->
                          FileEntry(present[k],
                                    PathJoin(userFolder, present[k]),
                                    fileMap)],
                      << >>,
                      {userFolder}
                      \cup {PathJoin(userFolder, allowedFiles[k]) :
                               k \in 1..Len(allowedFiles)})

\* mutation of GetUserFile: the file is looked up before its name is checked
GetUserFileLookupFirst(key, email, fileName, cfg, dirSet, fileMap) ==
    LET decoded == decodeURIComponent(email)
        filePath == PathJoin(PathJoin(DATA_DIR, decoded.s), fileName)
    IN  IF ~decoded.ok THEN Answered(500, "URIError", {}, << >>, << >>, {})
        ELSE IF KeyRefused(key, cfg) THEN Answered(401, "Unauthorized", {}, << >>, << >>, {})
        ELSE IF ~ExistsSync(filePath, dirSet, fileMap)
        THEN Answered(404, "File not found", {}, << >>, << >>, {filePath})
        ELSE IF \A k \in 1..Len(allowedFiles) : allowedFiles[k] # fileName
        THEN Answered(400, "Invalid file name", {}, << >>, << >>, {filePath})
        ELSE IF IsDirectory(filePath, dirSet)
        THEN Answered(500, "Failed to read file", {}, << >>, << >>,
                      {filePath})
        ELSE Answered(200, "file",  {},
                      << FileEntry(fileName, filePath, fileMap) >>,
                      Utf8Decode(fileMap[filePath]), {filePath})

\* app.get('/api/user/:email/file/:fileName'), email and fileName being
\* req.params.email and req.params.fileName; fs.readFileSync throws on a
\* directory
GetUserFile(key, email, fileName, cfg, dirSet, fileMap) ==
    LET decoded == decodeURIComponent(email)
        filePath == PathJoin(PathJoin(DATA_DIR, decoded.s), fileName)
    IN  IF ~decoded.ok THEN Answered(500, "URIError", {}, << >>, << >>, {})
        ELSE IF KeyRefused(key, cfg) THEN Answered(401, "Unauthorized", {}, << >>, << >>, {})
        ELSE IF \A k \in 1..Len(allowedFiles) : allowedFiles[k] # fileName
        THEN Answered(400, "Invalid file name", {}, << >>, << >>, {})
        ELSE IF ~ExistsSync(filePath, dirSet, fileMap)
        THEN Answered(404, "File not found", {}, << >>, << >>, {filePath})
        ELSE IF IsDirectory(filePath, dirSet)
        THEN Answered(500, "Failed to read file", {}, << >>, << >>,
                      {filePath})
        ELSE Answered(200, "file", {},
                      << FileEntry(fileName, filePath, fileMap) >>,
                      Utf8Decode(fileMap[filePath]), {filePath})

(***************************************************************************)
(* server.js: the request timeout.  The middleware gives every request     *)
(* that reaches it a 30-second timer and calls next() at once; the route   *)
(* handlers of the API run to their response inside that call.             *)
(***************************************************************************)
\* the response object when the handler starts: req.setTimeout(30000, ...)
\* has run and nothing was sent
Armed == [NoResponse EXCEPT !.timer = "armed"]

\* res.status(status).json(...), res.json(...), res.status(status).send(...):
\* a response is sent.  Express raises an error for such a call on a
\* response that was sent already; the model records the call as a second
\* response
ResJson(response, status) ==
    [response EXCEPT !.headersSent = TRUE, !.sent = Append(@, status)]

\* mutation of TimeoutCallback: 408 is sent without looking at headersSent
TimeoutCallbackUnguarded(response) == ResJson(response, 408)

\* the callback given to req.setTimeout
TimeoutCallback(response) ==
    IF ~response.headersSent THEN ResJson(response, 408) ELSE response

(***************************************************************************)
(* The server serving requests.                                            *)
(***************************************************************************)
\* one request to POST /api, from its arrival to its response
PostApiRequest(body, now) ==
    /\ proc = "listening"
    /\ served < MaxRequests
    /\ \E r \in {PostApi(body, now, config, dirs, files, issued)} :
          /\ last' = [kind |-> "post", body |-> body, now |-> now,
                      status |-> r.status, reply |-> r.reply,
                      message |-> r.message]
          /\ dirs' = r.dirs
          /\ files' = r.files
          /\ issued' = r.issued
          /\ res' = ResJson(Armed, r.status)
    /\ served' = served + 1
    /\ UNCHANGED << proc, config, enc, dec >>

\* what a read leaves in last: the request and its response
Read(kind, key, email, fileName, r) ==
    [kind |-> kind, key |-> key, email |-> email, fileName |-> fileName,
     status |-> r.status, reply |-> r.reply, users |-> r.users,
     files |-> r.files, content |-> r.content, touched |-> r.touched]

\* the requests to the read endpoints.  users: the query keys, which are
\* the two secrets and the array a repeated key parameter is parsed to;
\* files: << key, email >>; file: << key, email, fileName >>.  "%" is an
\* identity decodeURIComponent rejects, "al%69ce" an escaped spelling of
\* "alice", and "../public-key.txt" a file outside the data directory
Queries ==
    [ users |-> {Secret2, Secret1, JsArray(<< Secret2.s >>)},
      files |-> { << Secret2, Sample.alice >>, << JsUndefined, << 37 >> >> },
      file |-> { << Secret2, Sample.alice, Str.logs_txt >>,
                 << Secret2, << 97, 108, 37, 54, 57, 99, 101 >>,
                    Str.cookies \o Str.txt >>,
                 << Secret2, << 46, 46 >>, Str.public_key_txt >>,
                 << Secret1, Sample.alice, Str.logs_txt >>,
                 << Secret2, << 37 >>, Str.logs_txt >> } ]

\* one request to GET /api/users
GetUsersRequest(key) ==
    /\ proc = "listening"
    /\ served < MaxRequests
    /\ \E r \in {GetUsers(key, config, dirs, files)} :
          /\ last' = Read("users", key, << >>, << >>, r)
          /\ res' = ResJson(Armed, r.status)
    /\ served' = served + 1
    /\ UNCHANGED << proc, config, dirs, files, cipherVars >>

\* one request to GET /api/user/:email/files
GetUserFilesRequest(key, email) ==
    /\ proc = "listening"
    /\ served < MaxRequests
    /\ \E r \in {GetUserFiles(key, email, config, dirs, files)} :
          /\ last' = Read("files", key, email, << >>, r)
          /\ res' = ResJson(Armed, r.status)
    /\ served' = served + 1
    /\ UNCHANGED << proc, config, dirs, files, cipherVars >>

\* one request to GET /api/user/:email/file/:fileName
GetUserFileRequest(key, email, fileName) ==
    /\ proc = "listening"
    /\ served < MaxRequests
    /\ \E r \in {GetUserFile(key, email, fileName, config, dirs, files)} :
          /\ last' = Read("file", key, email, fileName, r)
          /\ res' = ResJson(Armed, r.status)
    /\ served' = served + 1
    /\ UNCHANGED << proc, config, dirs, files, cipherVars >>

Next ==
    \/ \E env \in Environments : Startup(env)
    \/ \E body \in Bodies : \E now \in ClockReadings :
          PostApiRequest(body, now)
    \/ \E key \in Queries.users : GetUsersRequest(key)
    \/ \E q \in Queries.files : GetUserFilesRequest(q[1], q[2])
    \/ \E q \in Queries.file : GetUserFileRequest(q[1], q[2], q[3])

Spec == Init /\ [][Next]_vars

(***************************************************************************)
(* The server with the timers of its requests running.  The dashboard      *)
(* route is the one whose response is not sent inside the handler:         *)
(* res.sendFile reads dashboard.html asynchronously.                       *)
(***************************************************************************)
\* one request to GET /, up to the return of the handler
DashboardRequest(key) ==
    /\ proc = "listening"
    /\ served < MaxRequests
    /\ last' = [kind |-> "dashboard", key |-> key]
    /\ res' = IF key # config.ACCESS_KEY THEN ResJson(Armed, 401)
              ELSE [Armed EXCEPT !.sendFile = "pending"]
    /\ served' = served + 1
    /\ UNCHANGED << proc, config, dirs, files, cipherVars >>

\* res.sendFile comes to its end: the file is sent with status 200, or
\* dashboard.html cannot be read and the error is answered 404; on a
\* response that was sent in the meantime sendFile sends nothing
SendFileDone ==
    /\ res.sendFile = "pending"
    /\ \/ /\ res.headersSent
          /\ res' = [res EXCEPT !.sendFile = "refused"]
       \/ /\ ~res.headersSent
          /\ \E outcome \in {<< "sent", 200 >>, << "failed", 404 >>} :
                res' = [ResJson(res, outcome[2]) EXCEPT !.sendFile = outcome[1]]
    /\ UNCHANGED << proc, config, dirs, files, last, served, cipherVars >>

\* the timer of the last request fires and its callback runs
RequestTimeout ==
    /\ res.timer # "none"
    /\ res' = [TimeoutCallback(res) EXCEPT !.timer = "fired"]
    /\ UNCHANGED << proc, config, dirs, files, last, served, cipherVars >>

\* an acknowledged message, one that raises an error, and refused ones
TimeoutBodies == UnauthorizedBodies \cup OtherBodies

TimeoutNext ==
    \/ \E env \in Environments : Startup(env)
    \/ \E body \in TimeoutBodies : \E now \in ClockReadings :
          PostApiRequest(body, now)
    \/ \E key \in Queries.users : DashboardRequest(key)
    \/ SendFileDone
    \/ RequestTimeout

TimeoutSpec == Init /\ [][TimeoutNext]_vars

(***************************************************************************)
(* Properties of POST /api.                                                *)
(***************************************************************************)
\* the last step served a request to POST /api
Posted == last.kind = "post"

\* the request carried the configured API secret
Authorized == Posted /\ last.body.key = config.API_KEY

CategoryNames == {Str.history, Str.cookies, Str.bookmarks, Str.downloads}
NamedTypes == CategoryNames \cup {Str.opened, Str.input, Str.geolocation}

\* Type equals name, ignoring letter case
NamesType(Type, names) == Type.t = "string" /\ ToLowerCase(Type.s) \in names

\* the directory of the identity of a request: Email, or 'Unknown'
IdentityFolder(body) ==
    PathJoin(DATA_DIR, TemplateText(OrElse(body.Email, JsString(Str.Unknown))))

\* the file <type>.txt of the identity of a category request
CategoryFile(body) ==
    Append(IdentityFolder(body), ToLowerCase(body.Type.s) \o Str.txt)

LogsFile(body) == Append(IdentityFolder(body), Str.logs_txt)

\* a chunk count in decimal, a colon, and that many non-empty fields of
\* base64 characters separated by colons
WellFormedToken(token) ==
    \A parts \in {TokenParts(token)} :
        /\ Len(parts) >= 2
        /\ parts[1] = ToDecimal(Len(parts) - 1)
        /\ \A k \in 2..Len(parts) :
              /\ parts[k] # << >>
              /\ \A i \in 1..Len(parts[k]) :
                    \/ parts[k][i] = 61
                    \/ \E v \in 0..63 : Base64Char(v) = parts[k][i]

\* the file at path holds one well-formed token that the private key of the
\* configured key pair decrypts to text, table being the ciphertexts issued
HoldsTokenOf(path, text, fileMap, table) ==
    /\ path \in DOMAIN fileMap
    /\ \A token \in {Utf8Decode(fileMap[path])} :
          /\ WellFormedToken(token)
          /\ \A result \in {decrypt(token, PemKey(config.PUBLIC_KEY.s), table)} :
                result.ok /\ JsString(result.text) = text

\* the request of the last step was answered with the success acknowledgment
Acknowledged == last.status = 200 /\ last.reply = "success"

\* the request of the last step was answered 500 with an error message
Rejected500 == last.status = 500 /\ last.reply = "error" /\ last.message # ""

\* the directory of the identity exists or can be created: no file stands
\* at its path or at a parent of its path
FolderUsable(body, fileMap) ==
    /\ OrElse(body.Email, JsString(Str.Unknown)).t = "string"
    /\ \A q \in Prefixes(IdentityFolder(body)) : q \notin DOMAIN fileMap

\* C7 as stated: after an authorized POST /api whose Type is, ignoring
\* letter case, one of history/cookies/bookmarks/downloads, the identity's
\* file <type>.txt holds exactly one well-formed token that the matching
\* private key decrypts to JSON.stringify(Data), and the response is the
\* success acknowledgment.
C7_CategoryAlwaysSaved ==
    (Authorized /\ NamesType(last.body.Type, CategoryNames))
    => /\ HoldsTokenOf(CategoryFile(last.body), JsonStringify(last.body.Data),
                       files, issued)
       /\ Acknowledged

\* the category request can be saved: Data is present, the configured
\* public key is an RSA key of at least 2048 bits, the identity's directory
\* is usable and no directory stands at the path of the category file
Saveable(body, cfg, dirSet, fileMap) ==
    /\ body.Data.t # "undefined"
    /\ PemKey(cfg.PUBLIC_KEY.s).form = "pem"
    /\ PemKey(cfg.PUBLIC_KEY.s).bits >= 2048
    /\ FolderUsable(body, fileMap)
    /\ CategoryFile(body) \notin dirSet

\* Data is absent, the public key is malformed, or the disk refuses
Unsaveable(body, cfg, dirSet, fileMap) ==
    \/ body.Data.t = "undefined"
    \/ PemKey(cfg.PUBLIC_KEY.s).form # "pem"
    \/ ~FolderUsable(body, fileMap)
    \/ CategoryFile(body) \in dirSet

\* C7, amended: an authorized POST /api whose Type is, ignoring letter case,
\* one of history/cookies/bookmarks/downloads and that can be saved (Data
\* present, RSA public key of at least 2048 bits, identity directory and
\* category file writable) leaves in the identity's file <type>.txt exactly
\* one well-formed token that the matching private key decrypts to
\* JSON.stringify(Data), and is answered with the success acknowledgment;
\* one with Data absent, a malformed public key or a blocked path is
\* answered 500 and changes no file.
C7_CategorySaved ==
    [][(Authorized' /\ NamesType(last'.body.Type, CategoryNames))
       => /\ Saveable(last'.body, config, dirs, files)
             => /\ HoldsTokenOf(CategoryFile(last'.body),
                                JsonStringify(last'.body.Data), files',
                                issued')
                /\ Acknowledged'
          /\ Unsaveable(last'.body, config, dirs, files)
             => Rejected500' /\ files' = files]_vars

\* a second category request of an identity was saved over the token of a
\* first, as a token of two chunks
C7_Witness ==
    /\ served = 2
    /\ Authorized /\ Acknowledged
    /\ last.body.Data = Payload.DataList
    /\ NamesType(last.body.Type, CategoryNames)
    /\ Len(issued) = 3
    /\ DOMAIN files \cap {q \in DOMAIN files : q[1] = Str.data}
          = {CategoryFile(last.body)}
    /\ Len(TokenParts(Utf8Decode(files[CategoryFile(last.body)]))) = 3

\* content extends old by some octets
Extends(content, old) ==
    Len(content) > Len(old) /\ SubSeq(content, 1, Len(old)) = old

\* the content of the file at path, empty when there is no such file
ContentOf(path, fileMap) ==
    IF path \in DOMAIN fileMap THEN fileMap[path] ELSE << >>

\* the text appended to the file at path in the step
AppendedText(path) ==
    Utf8Decode(SubSeq(files'[path], Len(ContentOf(path, files)) + 1,
                      Len(files'[path])))

\* the number of places where sub occurs in s
Occurrences(s, sub) ==
    Cardinality({i \in 0..(Len(s) - Len(sub)) :
                    SubSeq(s, i + 1, i + Len(sub)) = sub})

\* text ends with the record separator
EndsRecord(text) ==
    /\ Len(text) >= Len(Str.Separator)
    /\ SubSeq(text, Len(text) - Len(Str.Separator) + 1, Len(text))
          = Str.Separator

\* text is one log record: it ends with the one record separator it holds
OneRecord(text) ==
    Occurrences(text, Str.Separator) = 1 /\ EndsRecord(text)

\* no text the request submits for the record holds a record separator
SeparatorFree(body) ==
    \A v \in {body.Time, body.Field, body.Message} :
        v.t = "string" => ~Includes(v.s, Str.Separator)

\* the record holds v where v was submitted as a string
Holds(text, v) == v.t = "string" => Includes(text, v.s)

\* the four category files of the identity are as they were
CategoryFilesUnchanged(body) ==
    \A name \in CategoryNames :
        LET path == Append(IdentityFolder(body), name \o Str.txt)
        IN  /\ (path \in DOMAIN files') = (path \in DOMAIN files)
            /\ ContentOf(path, files') = ContentOf(path, files)

\* the step served an authorized request of Type opened or input
RecordRequest ==
    Authorized' /\ NamesType(last'.body.Type, {Str.opened, Str.input})

\* C8 as stated: an authorized POST /api with Type opened or input, in any
\* letter case, extends the identity's logs.txt by exactly one record
\* containing the submitted Field and Message and leaves the four category
\* files of the identity unchanged.
C8_LogAlwaysExtended ==
    [][RecordRequest
       => \A path \in {LogsFile(last'.body)} :
              /\ path \in DOMAIN files'
              /\ Extends(files'[path], ContentOf(path, files))
              /\ \A text \in {AppendedText(path)} :
                    /\ OneRecord(text)
                    /\ Holds(text, last'.body.Field)
                    /\ Holds(text, last'.body.Message)
              /\ CategoryFilesUnchanged(last'.body)]_vars

\* logs.txt of the identity can be appended to: the identity's directory is
\* usable and no directory stands at the path of logs.txt
Appendable(body, dirSet, fileMap) ==
    /\ FolderUsable(body, fileMap)
    /\ LogsFile(body) \notin dirSet

\* v is absent or a string with no unpaired surrogate
Storable(v) == v.t = "undefined" \/ (v.t = "string" /\ IsWellFormed(v.s))

\* C8, amended: an authorized POST /api with Type opened or input, in any
\* letter case, whose logs.txt can be appended to (identity directory
\* usable, no directory at the path of logs.txt) extends the identity's
\* logs.txt by one entry that ends with the record separator, holds no
\* other separator unless Time, Field or Message submits one, and contains
\* Field and Message wherever the one submitted is a string with no
\* unpaired surrogate; it changes no other file and is answered with the
\* success acknowledgment.  One whose logs.txt cannot be appended to is
\* answered 500 and changes no file.
C8_LogExtended ==
    [][RecordRequest
       => \A path \in {LogsFile(last'.body)} :
              IF Appendable(last'.body, dirs, files)
              THEN /\ path \in DOMAIN files'
                   /\ Extends(files'[path], ContentOf(path, files))
                   /\ \A text \in {AppendedText(path)} :
                         /\ EndsRecord(text)
                         /\ SeparatorFree(last'.body) => OneRecord(text)
                         /\ Storable(last'.body.Field)
                            => Holds(text, last'.body.Field)
                         /\ Storable(last'.body.Message)
                            => Holds(text, last'.body.Message)
                   /\ \A q \in (DOMAIN files \cup DOMAIN files') \ {path} :
                         /\ q \in DOMAIN files /\ q \in DOMAIN files'
                         /\ files'[q] = files[q]
                   /\ Acknowledged'
              ELSE Rejected500' /\ files' = files]_vars

\* a record with the submitted Field and Message was appended to a log that
\* held a record already
C8_Witness ==
    /\ served = 2
    /\ Authorized /\ Acknowledged
    /\ NamesType(last.body.Type, {Str.opened, Str.input})
    /\ last.body.Field = Payload.FieldText /\ last.body.Message = Payload.MessageText
    /\ LogsFile(last.body) \in DOMAIN files
    /\ \E text \in {Utf8Decode(files[LogsFile(last.body)])} :
          /\ Occurrences(text, Str.Separator) = 2
          /\ Includes(text, Str.Field \o Payload.FieldText.s \o << 10 >>)

\* the step served an authorized request whose Type is none of the seven
\* named types
ReportOnlyRequest ==
    Authorized' /\ ~NamesType(last'.body.Type, NamedTypes)

C10_IngestionAuthentication ==
    Posted
    => /\ last.body.key # config.API_KEY
          => last.status = 401 /\ last.reply = "unauthorized"
       /\ Acknowledged => last.body.key = config.API_KEY

\* a request that carried the access secret as its key was answered 401
\* after an authorized request had been acknowledged
C10_Witness ==
    /\ served = 2
    /\ Posted
    /\ last.body.key = config.ACCESS_KEY
    /\ last.status = 401
    /\ \E q \in DOMAIN files : q[1] = Str.data

(***************************************************************************)
(* Properties of the read endpoints.                                       *)
(***************************************************************************)
\* the last step served a request to one of the three read endpoints
ReadRequest == last.kind \in {"users", "files", "file"}

\* the response carries no identity name, no file entry and no content, and
\* the handler handed no path to fs
DisclosesNothing ==
    /\ last.users = {}
    /\ last.files = << >>
    /\ last.content = << >>
    /\ last.touched = {}

\* something is stored for "alice" that a read could disclose
AliceStored ==
    \E q \in DOMAIN files :
        Len(q) = 3 /\ q[1] = Str.data /\ q[2] = Sample.alice

\* C11 as stated: each of the three read endpoints answers 401 and
\* discloses no identity name, file entry or file content unless the query
\* key equals the access secret, and a request presenting the ingestion
\* secret is not authorized to read.
C11_ReadsGatedByAccessSecret ==
    ReadRequest =>
        /\ last.key # config.ACCESS_KEY =>
              last.status = 401 /\ DisclosesNothing
        /\ last.key = config.API_KEY =>
              last.status = 401 /\ DisclosesNothing

\* C11, amended: a read whose query key differs from the access secret
\* discloses no identity name, file entry or file content and reads nothing
\* from disk; it is answered 401, except that an identity parameter which
\* decodeURIComponent rejects is answered by the framework's error response
\* before the key is looked at.  The ingestion secret is refused like any
\* other key whenever the two configured secrets differ.
C11_ReadsGated ==
    ReadRequest /\ last.key # config.ACCESS_KEY =>
        /\ DisclosesNothing
        /\ IF last.kind # "users" /\ ~decodeURIComponent(last.email).ok
           THEN last.status = 500 /\ last.reply = "URIError"
           ELSE last.status = 401 /\ last.reply = "Unauthorized"

\* a read presenting the ingestion secret, which is not the access secret,
\* was refused while files of "alice" were stored
C11_Witness ==
    /\ ReadRequest
    /\ last.key = config.API_KEY
    /\ config.API_KEY # config.ACCESS_KEY
    /\ last.status = 401
    /\ AliceStored

\* the last step served a fetch-file request that passed the key check
FileRequest ==
    /\ last.kind = "file"
    /\ last.key = config.ACCESS_KEY
    /\ decodeURIComponent(last.email).ok

\* the five names a file may be fetched by
FetchableNames ==
    {name \o Str.txt : name \in CategoryNames} \cup {Str.logs_txt}

\* the path a fetch-file request names
RequestedPath ==
    PathJoin(PathJoin(DATA_DIR, decodeURIComponent(last.email).s),
             last.fileName)

\* the response carries the content of the requested file
ContentReturned ==
    /\ last.status = 200
    /\ last.reply = "file"
    /\ RequestedPath \in DOMAIN files
    /\ last.content = Utf8Decode(files[RequestedPath])

\* the request was answered with status and reply and carries nothing
RefusedWith(status, reply) ==
    /\ last.status = status
    /\ last.reply = reply
    /\ last.files = << >>
    /\ last.content = << >>

LogFiles(fileMap) == {q \in DOMAIN fileMap : q[Len(q)] = Str.logs_txt}

\* old is a prefix of content
IsPrefix(old, content) ==
    Len(old) <= Len(content) /\ SubSeq(content, 1, Len(old)) = old

\* C13: no step of the server overwrites, truncates or deletes a logs.txt:
\* the content it held before the step is a prefix of the content it holds
\* after it (and so of its content at every later time), and whatever a
\* step appends ends with the record separator.
C13_LogAppendOnly ==
    [][/\ \A q \in LogFiles(files) :
             q \in DOMAIN files' /\ IsPrefix(files[q], files'[q])
       /\ \A q \in LogFiles(files') :
             ContentOf(q, files') # ContentOf(q, files)
             => EndsRecord(AppendedText(q))]_vars

\* a geolocation record was appended to a log that held a record already
C13_Witness ==
    /\ served = 2
    /\ Authorized /\ Acknowledged
    /\ NamesType(last.body.Type, {Str.geolocation})
    /\ LogsFile(last.body) \in DOMAIN files
    /\ Occurrences(Utf8Decode(files[LogsFile(last.body)]), Str.Separator) >= 2

\* the files named <category>.txt among those of fileMap
SnapshotFiles(fileMap) ==
    {q \in DOMAIN fileMap :
        \E name \in CategoryNames : q[Len(q)] = name \o Str.txt}

\* the token made of exactly the ciphertexts issued in the step, in order
IssuedToken ==
    LET n == Len(issued') - Len(issued)
    IN  ToDecimal(n) \o << 58 >>
        \o JoinWith([j \in 1..n |-> Base64Encode(issued'[Len(issued) + j].ct)],
                    58)

\* C14: last write wins.  Requests are handled one at a time, each handler
\* running to completion, so every interleaving of requests is a sequence of
\* steps.  In every step each snapshot file either stays as it was, or the
\* step served an authorized category request for it and the file then holds
\* exactly the one token that request produced, with nothing left of what
\* it held before; no step removes a snapshot file.  So after any sequence
\* of category requests a snapshot file holds the token of the last write.
C14_LastWriteWins ==
    [][/\ SnapshotFiles(files) \subseteq SnapshotFiles(files')
       /\ \A q \in SnapshotFiles(files') :
             \/ q \in DOMAIN files /\ files'[q] = files[q]
             \/ /\ Authorized'
                /\ NamesType(last'.body.Type, CategoryNames)
                /\ q = CategoryFile(last'.body)
                /\ Len(issued') > Len(issued)
                /\ \A token \in {IssuedToken} :
                      files'[q] = Utf8Encode(token)]_vars

\* a snapshot of two chunks was replaced by a later one of a single chunk
C14_Witness ==
    /\ served = 2
    /\ Len(issued) = 3
    /\ Authorized /\ Acknowledged
    /\ last.body = CategoryBody(Sample.Cookies, JsString(Sample.alice),
                                Payload.DataText)
    /\ CategoryFile(last.body) \in DOMAIN files
    /\ files[CategoryFile(last.body)]
          = Utf8Encode(<< 49, 58 >> \o Base64Encode(issued[3].ct))

\* the complete record an authorized log-type request appends
RecordOf(body, now) ==
    Utf8Encode(LogEntry(body, ToLowerCase(body.Type.s),
                        TemplateText(OrElse(body.Time, JsString(now))),
                        ToUpperCase(body.Type.s)))

\* the complete records of the authorized log-type requests whose identity
\* has its log at path
RecordsFor(path) ==
    {RecordOf(body, now) :
        body \in {b \in Bodies :
                     /\ b.key = config.API_KEY
                     /\ NamesType(b.Type, {Str.opened, Str.input,
                                           Str.geolocation})
                     /\ LogsFile(b) = path},
        now \in ClockReadings}

\* content is a concatenation of members of records
RECURSIVE IsConcatenation(_, _)
IsConcatenation(content, records) ==
    \/ content = << >>
    \/ \E r \in records :
          /\ IsPrefix(r, content)
          /\ IsConcatenation(SubSeq(content, Len(r) + 1, Len(content)),
                             records)

\* C15: log records do not interleave.  Requests being handled one at a
\* time, whatever the order in which log-type requests for one identity are
\* served, the identity's logs.txt is a concatenation of complete records
\* of those requests: no record is split, cut short or mixed with another.
C15_LogRecordsWhole ==
    \A q \in LogFiles(files) :
        \A records \in {RecordsFor(q)} : IsConcatenation(files[q], records)

\* the log of "alice" holds the complete records of two different requests
C15_Witness ==
    \E q \in {LogsFile(OtherBody(JsUndefined, JsString(Sample.alice)))} :
        /\ q \in DOMAIN files
        /\ \E r1 \in RecordsFor(q) : \E r2 \in RecordsFor(q) :
              r1 # r2 /\ files[q] = r1 \o r2

\* the identity string of a request: Email, or 'Unknown'
IdentityOf(body) == TemplateText(OrElse(body.Email, JsString(Str.Unknown)))

\* the files the step created or changed
WrittenFiles ==
    {q \in DOMAIN files' : q \notin DOMAIN files \/ files'[q] # files[q]}

\* path lies inside the directory named name directly below the data root
InsideOwnDirectory(path, name) ==
    Len(path) = Len(DATA_DIR) + 2 /\ Parent(path) = Append(DATA_DIR, name)

\* C16 as stated: an authorized message for identity A creates or modifies
\* files only inside A's own directory, which is the direct child of the
\* data root named A; it creates no other directory, and creates or changes
\* nothing in another identity's directory or outside the data root.
C16_IdentityIsolation ==
    [][Authorized'
       => /\ \A q \in WrittenFiles :
                InsideOwnDirectory(q, IdentityOf(last'.body))
          /\ dirs' \ dirs \subseteq {Append(DATA_DIR, IdentityOf(last'.body))}
      ]_vars

(***************************************************************************)
(* Properties of the responses of POST /api.                               *)
(***************************************************************************)
\* fs refuses to write the file at path for the request: a directory stands
\* at path, or a file stands where the identity's directory should be
WriteBlocked(path, body, dirSet, fileMap) ==
    path \in dirSet \/ IdentityFolder(body) \in DOMAIN fileMap

\* processing the request throws: the identity is no string or a file
\* stands at a parent of its directory (ensureUserFolder), Type is neither
\* absent nor a string (toUpperCase), Data is absent or the public key
\* unusable (encrypt), or fs refuses the write
ProcessingThrows(body, cfg, dirSet, fileMap) ==
    \/ OrElse(body.Email, JsString(Str.Unknown)).t # "string"
    \/ \E q \in Prefixes(Parent(IdentityFolder(body))) : q \in DOMAIN fileMap
    \/ body.Type.t \notin {"undefined", "null", "string"}
    \/ /\ NamesType(body.Type, CategoryNames)
       /\ \/ body.Data.t = "undefined"
          \/ PemKey(cfg.PUBLIC_KEY.s).form # "pem"
          \/ WriteBlocked(CategoryFile(body), body, dirSet, fileMap)
    \/ /\ NamesType(body.Type, NamedTypes \ CategoryNames)
       /\ WriteBlocked(LogsFile(body), body, dirSet, fileMap)

\* C17: every authorized POST /api whose processing does not throw is
\* answered with the success acknowledgment, whichever branch ran; one
\* whose processing throws is answered 500 with an error message, and the
\* server stays in its serving state.
C17_AcknowledgedOrContained ==
    [][Authorized'
       => /\ IF ProcessingThrows(last'.body, config, dirs, files)
             THEN Rejected500'
             ELSE Acknowledged'
          /\ proc' = "listening"]_vars

\* a request whose processing threw after the identity's directory was
\* created was answered 500, and the server is listening with requests
\* still to serve
C17_Witness ==
    /\ Authorized /\ Rejected500
    /\ IdentityFolder(last.body) \in dirs
    /\ proc = "listening"
    /\ served < MaxRequests

(***************************************************************************)
(* Properties of start-up.                                                 *)
(***************************************************************************)
\* the key is configured: the environment variable, when set to a non-empty
\* string, or else the key file holds something other than white space
Configured(keyName, filePath, env, fileMap) ==
    IF env[keyName].t = "string" /\ env[keyName].s # << >>
    THEN \E i \in 1..Len(env[keyName].s) : ~IsWhiteSpace(env[keyName].s[i])
    ELSE /\ << filePath >> \in DOMAIN fileMap
         /\ \E i \in 1..Len(fileMap[<< filePath >>]) :
               ~IsWhiteSpace(fileMap[<< filePath >>][i])

\* the public key, the ingestion secret and the access secret are configured
AllConfigured(env, fileMap) ==
    /\ Configured("PUBLIC_KEY", Str.public_key_txt, env, fileMap)
    /\ Configured("API_KEY", Str.receivekey_txt, env, fileMap)
    /\ Configured("ACCESS_KEY", Str.accesskey_txt, env, fileMap)

\* C18: the server reaches listening only with the public key, the
\* ingestion secret and the access secret resolved to non-empty values, a
\* request is served only by a listening server, and a start-up in which any
\* of the three is absent ends the process before the data directory is
\* made and before app.listen.
C18_ListeningOnlyWithKeys ==
    [][/\ proc' = "listening"
          => /\ Truthy(config'.PUBLIC_KEY) /\ config'.PUBLIC_KEY.t = "string"
             /\ Truthy(config'.API_KEY) /\ config'.API_KEY.t = "string"
             /\ Truthy(config'.ACCESS_KEY) /\ config'.ACCESS_KEY.t = "string"
       /\ last' # last => proc = "listening" /\ proc' = "listening"
       /\ \A env \in Environments :
             Startup(env) /\ ~AllConfigured(env, files)
             => proc' = "exited" /\ dirs' = dirs /\ config' = NoConfig
       /\ proc = "exited" => proc' = "exited"]_vars

\* a start-up with key files on disk ended the process, the environment
\* setting a blank value that hides a key file
C18_Witness ==
    /\ proc = "exited"
    /\ files = KeyFiles
    /\ dirs = {}
    /\ last = NoRequest

(***************************************************************************)
(* Properties of ensureUserFolder.                                         *)
(***************************************************************************)
\* the identities the requests of the model name
Identities ==
    {OrElse(body.Email, JsString(Str.Unknown)) : body \in Bodies}

\* C19: on every disk the server reaches and for every identity, a call of
\* ensureUserFolder that returns is repeatable: calling it again, any
\* number of times, returns the same path, does not raise, and leaves the
\* directories as the first call left them; no call touches a file, so the
\* files of the directory stay as they are.
C19_EnsureUserFolderIdempotent ==
    \A email \in Identities :
        \A first \in {ensureUserFolder(email, dirs, files)} :
            first.ok
            => /\ dirs \subseteq first.dirs
               /\ IsDirectory(first.userFolder, first.dirs)
                  \/ first.userFolder \in DOMAIN files
               /\ \A second \in {ensureUserFolder(email, first.dirs, files)} :
                     /\ second.ok
                     /\ second.userFolder = first.userFolder
                     /\ second.dirs = first.dirs
                     /\ ensureUserFolder(email, second.dirs, files) = second

\* the handler called ensureUserFolder for "alice" a second time, files
\* being stored in the directory of "alice"
C19_Witness ==
    /\ served = 2
    /\ Authorized
    /\ last.body.Email = JsString(Sample.alice)
    /\ IdentityFolder(last.body) \in dirs
    /\ Cardinality({q \in DOMAIN files :
                       Parent(q) = IdentityFolder(last.body)}) = 2

(***************************************************************************)
(* Properties of the identity directories.                                 *)
(***************************************************************************)
\* the names list-identities returns: the directories directly below the
\* data root
Listed(dirSet) ==
    {q[Len(q)] : q \in {p \in dirSet : Len(p) = Len(DATA_DIR) + 1
                                        /\ Parent(p) = DATA_DIR}}

\* the answer of a served list-identities request is the listed names
ListAnswered ==
    last'.kind = "users" /\ last'.status = 200
    => last'.users = Listed(dirs')

UnknownFolder == Append(DATA_DIR, Str.Unknown)

\* C22: an authorized message with no Email is processed under the identity
\* 'Unknown': the only directory it creates is data/Unknown, every file it
\* creates or changes lies directly in data/Unknown, and when a category or
\* log message is acknowledged the file written is the one of that type in
\* data/Unknown.
C22_DefaultIdentity ==
    [][Authorized' /\ last'.body.Email.t = "undefined"
       => /\ dirs' \ dirs \subseteq {UnknownFolder}
          /\ UnknownFolder \in dirs'
          /\ \A q \in WrittenFiles : Parent(q) = UnknownFolder
          /\ Acknowledged' /\ NamesType(last'.body.Type, CategoryNames)
             => WrittenFiles
                   = {Append(UnknownFolder,
                             ToLowerCase(last'.body.Type.s) \o Str.txt)}
          /\ Acknowledged'
             /\ NamesType(last'.body.Type, NamedTypes \ CategoryNames)
             => WrittenFiles = {Append(UnknownFolder, Str.logs_txt)}]_vars

\* a snapshot without Email was saved as data/Unknown/cookies.txt while the
\* directory of another identity exists
C22_Witness ==
    /\ Authorized /\ Acknowledged
    /\ last.body.Email.t = "undefined"
    /\ NamesType(last.body.Type, CategoryNames)
    /\ Append(UnknownFolder, Str.cookies \o Str.txt) \in DOMAIN files
    /\ Append(DATA_DIR, Sample.alice) \in dirs
    /\ \A q \in DOMAIN files : q[1] = Str.data => Parent(q) = UnknownFolder

(***************************************************************************)
(* Properties of the chunking (checked under CipherSpec).                  *)
(***************************************************************************)
\* C23: encrypt splits the UTF-8 octets p of the plaintext into consecutive
\* chunks in order: chunk i, counted from 0, is exactly the octets
\* [190*i, min(190*(i+1), |p|)) of p; every chunk is non-empty and at most
\* 190 octets long, only the last may be shorter, the chunks concatenated in
\* token order are p, and field i of the token is the ciphertext of chunk i.
C23_ChunkBoundaries ==
    (enc.phase = "encrypted" /\ enc.ok) =>
        \A p \in {Utf8Encode(enc.text.s)} :
            \A fields \in {ChunkFields(enc.token)} :
                /\ Len(fields) = Len(issued)
                /\ \A i \in 0..(Len(issued) - 1) :
                      /\ issued[i + 1].pt
                            = SubSeq(p, MAX_CHUNK_SIZE * i + 1,
                                     Min(MAX_CHUNK_SIZE * (i + 1), Len(p)))
                      /\ Len(issued[i + 1].pt) \in 1..MAX_CHUNK_SIZE
                      /\ i < Len(issued) - 1
                         => Len(issued[i + 1].pt) = MAX_CHUNK_SIZE
                      /\ fields[i + 1] = Base64Encode(issued[i + 1].ct)
                /\ Concat([k \in 1..Len(issued) |-> issued[k].pt]) = p

\* a text of 3- and 4-octet characters was split into full chunks and a
\* shorter last one, a character straddling a boundary
C23_Witness ==
    /\ enc.phase = "encrypted" /\ enc.ok
    /\ Len(issued) >= 3
    /\ Len(issued[Len(issued)].pt) < MAX_CHUNK_SIZE
    /\ issued[1].pt[MAX_CHUNK_SIZE] > 127
    /\ issued[2].pt[1] \in 128..191

(***************************************************************************)
(* Unauthorized requests and the disk.                                     *)
(***************************************************************************)
\* the key of the request of the step is not the configured API secret
KeyMismatch == Posted /\ last.body.key # config.API_KEY

\* C24: a POST /api whose key does not equal the configured secret creates
\* no identity directory, writes no category file and appends nothing to
\* any log: the directories and the files under the data root, and the
\* ciphertexts issued, are after the request what they were before it,
\* whatever Type, Email and Data it carries.
C24_UnauthorizedNoEffect ==
    [][KeyMismatch'
       => /\ dirs' = dirs
          /\ files' = files
          /\ issued' = issued
          /\ IdentityFolder(last'.body) \notin dirs
             => ~ExistsSync(IdentityFolder(last'.body), dirs', files')]_vars

\* a category message for alice with no key was refused while alice had no
\* directory, after an authorized request had stored a file of another
\* identity: alice still has no directory and the stored file is the only one
C24_Witness ==
    /\ served = 2
    /\ KeyMismatch
    /\ last.body.key.t = "undefined"
    /\ NamesType(last.body.Type, CategoryNames)
    /\ last.body.Data.t = "string"
    /\ last.status = 401
    /\ IdentityFolder(last.body) \notin dirs
    /\ \E q \in DOMAIN files : q[1] = Str.data /\ Parent(q) # IdentityFolder(last.body)

(***************************************************************************)
(* A category message that cannot be encrypted.                            *)
(***************************************************************************)
\* encrypt rejects what the category branch hands it: Data is absent, so
\* JSON.stringify(Data) is undefined and no non-empty string, or the
\* configured public key is no PEM key
EncryptRejects(body, cfg) ==
    \/ body.Data.t = "undefined"
    \/ PemKey(cfg.PUBLIC_KEY.s).form # "pem"

\* C25: when an authorized category-type message cannot be encrypted, the
\* request is answered 500, every file, the identity's existing category
\* file among them, keeps its previous content and no ciphertext is issued;
\* and whatever the request, a category file written in a step is not empty
\* and holds a well-formed token.
C25_FailedWriteKeepsSnapshot ==
    [][/\ (/\ Authorized'
           /\ NamesType(last'.body.Type, CategoryNames)
           /\ EncryptRejects(last'.body, config))
          => /\ Rejected500'
             /\ files' = files
             /\ issued' = issued
       /\ \A q \in WrittenFiles \cap SnapshotFiles(files') :
             \A token \in {Utf8Decode(files'[q])} :
                /\ token # << >>
                /\ WellFormedToken(token)]_vars

\* bob's cookies, saved by a first request, are still the token of that
\* request after a second cookies message of bob without Data was answered
\* 500 with the message of encrypt
C25_Witness ==
    /\ served = 2
    /\ last.kind = "post"
    /\ last.body = CategoryBody(Sample.Cookies, JsString(Sample.bob), JsUndefined)
    /\ last.status = 500
    /\ last.message = "Text must be a non-empty string"
    /\ Len(issued) = 1
    /\ CategoryFile(last.body) \in DOMAIN files
    /\ files[CategoryFile(last.body)]
          = Utf8Encode(<< 49, 58 >> \o Base64Encode(issued[1].ct))

(***************************************************************************)
(* Properties of the request timeout (checked under TimeoutSpec).          *)
(***************************************************************************)
\* the step is the first run of the timeout callback of the last request
TimeoutFires ==
    served' = served /\ res.timer = "armed" /\ res'.timer = "fired"

\* C21: a request that has not been answered when its 30-second timeout
\* fires is answered with the error 408 by the callback, and one that has
\* been answered is left as it is; in every order of the timeout callback,
\* the handler's responses (401, the success acknowledgment, the 500 of the
\* error path) and the end of res.sendFile, a request receives at most one
\* response, and the response it received is never followed by another.
C21_TimeoutSingleResponse ==
    [][/\ Len(res'.sent) <= 1
       /\ res'.headersSent <=> res'.sent # << >>
       /\ TimeoutFires /\ ~res.headersSent => res'.sent = << 408 >>
       /\ TimeoutFires /\ res.headersSent => res'.sent = res.sent
       /\ served' = served /\ res.sent # << >> => res'.sent = res.sent]_vars

\* after a message was acknowledged, the dashboard was requested with the
\* access secret; the timer fired while dashboard.html was still being
\* read, the request was answered 408, and sendFile then sent nothing
C21_Witness ==
    /\ served = 2
    /\ last.kind = "dashboard"
    /\ last.key = config.ACCESS_KEY
    /\ res.timer = "fired"
    /\ res.sendFile = "refused"
    /\ res.sent = << 408 >>

=============================================================================
